---- MODULE Spec2Model ----
(***************************************************************************)
(* Verification model of the messageboard plugin (backend/messageboard.py) *)
(* and of the HT1632C driver calls it makes (backend/ht1632c.py).          *)
(*                                                                         *)
(* Timestamps are counted in clock ticks, Resolution ticks to the second,  *)
(* so that time.time() (a float) and int(time.time()) differ.  Python's    *)
(* None is the reference 0; Message objects live in a heap indexed by      *)
(* reference, because the plugin compares messages by identity.            *)
(***************************************************************************)
EXTENDS Integers, Sequences, FiniteSets, TLC

VARIABLES
    messages,          \* Messageboard.messages: list of Message references
    heap,              \* the Message objects reachable from the plugin
    current_message,   \* Messageboard.__current_message (reference or None)
    config_messages,   \* persisted configuration field 'messages' (list of dicts)
    uuid_count,        \* how many identifiers uuid.uuid4() has produced
    turned_on,         \* HT1632C.__turned_on
    scrolling_thread,  \* HT1632C.__scrolling_thread (thread reference or None)
    threads,           \* the ScrollingMessage threads that have not terminated
    panel_cleared,     \* HT1632C.__panel_cleared
    last_hw_reset,     \* HT1632C.__last_hw_reset
    clock,             \* the value time.time() returns, in ticks
    last,              \* record of the last operation: arguments, result, events, driver calls
    rr_window,         \* who was current after each of the latest uninterrupted cycles
    selection,         \* whether a cycle has selected a message, and whether it still stands
    config_duration,   \* persisted configuration field 'duration'
    config_speed,      \* persisted configuration field 'speed'
    scroll_speed,      \* HT1632C.speed, in units of 1/10000 second
    display_task,      \* Messageboard.__display_task: index in tasks
    tasks,             \* the BackgroundTask objects created so far
    spi,               \* HT1632C.__spi: the bus handle, "open", "closed", or "faulty"
    gpio,              \* whether the GPIO lines are set up (GPIO.setup ... GPIO.cleanup)
    lock,              \* HT1632C.__lock: whether it is held, and who waits for it
    bus_pc,            \* where each thread stands in the frame it is transferring
    wire,              \* what the last pixel frame transferred to each panel showed
    reset_pc,          \* where each thread stands in __reset_hardware
    pass               \* the scroll pass in progress: buffer, index, steps left, frames written

vars == <<messages, heap, current_message, config_messages, uuid_count,
          turned_on, scrolling_thread, threads, panel_cleared, last_hw_reset,
          clock, last, rr_window, selection, config_duration, config_speed,
          scroll_speed, display_task, tasks, spi, gpio, lock, bus_pc,
          wire, reset_pc, pass>>

----------------------------------------------------------------------------
(* Bounds of the model *)

Resolution == 2
StartClock == 2
MaxClock == 5
MaxMessages == 2
MaxUuids == 2
MaxThreads == 1
FarEnd == 40
MaxTasks == 3
MaxAlive == 2

(* Program constants *)

None == 0
panels == 4
PanelColumns == 32
WEEK == 604800
RESET_HW_DELAY == 60

----------------------------------------------------------------------------
(* Small helpers over sequences *)

Range(s) == {s[i] : i \in DOMAIN s}

RECURSIVE SumSeq(_)
SumSeq(s) == IF s = <<>> THEN 0 ELSE Head(s) + SumSeq(Tail(s))

Min(S) == CHOOSE x \in S : \A y \in S : x <= y

\* list.remove(x): drops the first element equal to x
RECURSIVE ListRemove(_, _)
ListRemove(s, x) ==
    IF s = <<>> THEN <<>>
    ELSE IF Head(s) = x THEN Tail(s)
    ELSE <<Head(s)>> \o ListRemove(Tail(s), x)

----------------------------------------------------------------------------
(* HT1632C driver: font, logos and pattern search.  A text is a sequence   *)
(* of one-character strings.                                               *)

FONT_INVALID == <<40, 254, 40, 254, 40>>

PATTERN_REPLACEMENT == "^"

\* glyph table for the printable ASCII code points (the backquote, which
\* cannot be written in a string here, is left out)
FontLetters ==
    << " ", "!", "\"", "#", "$", "%", "&", "'", "(", ")", "*", "+", ",",
       "-", ".", "/", "0", "1", "2", "3", "4", "5", "6", "7", "8", "9",
       ":", ";", "<", "=", ">", "?", "@", "A", "B", "C", "D", "E", "F",
       "G", "H", "I", "J", "K", "L", "M", "N", "O", "P", "Q", "R", "S",
       "T", "U", "V", "W", "X", "Y", "Z", "[", "\\", "]", "^", "_", "a",
       "b", "c", "d", "e", "f", "g", "h", "i", "j", "k", "l", "m", "n",
       "o", "p", "q", "r", "s", "t", "u", "v", "w", "x", "y", "z", "{",
       "|", "}", "~" >>

FontGlyphs ==
    << <<0, 0, 0, 0, 0>>, <<0, 0, 250, 0, 0>>, <<0, 224, 0, 224, 0>>,
       <<40, 254, 40, 254, 40>>, <<36, 84, 254, 84, 72>>,
       <<196, 200, 16, 38, 70>>, <<108, 146, 170, 68, 10>>,
       <<0, 160, 192, 0, 0>>, <<0, 56, 68, 130, 0>>,
       <<0, 130, 68, 56, 0>>, <<16, 84, 56, 84, 16>>,
       <<16, 16, 124, 16, 16>>, <<0, 10, 12, 0, 0>>,
       <<16, 16, 16, 16, 16>>, <<0, 6, 6, 0, 0>>, <<4, 8, 16, 32, 64>>,
       <<124, 138, 146, 162, 124>>, <<0, 66, 254, 2, 0>>,
       <<66, 134, 138, 146, 98>>, <<132, 130, 162, 210, 140>>,
       <<24, 40, 72, 254, 8>>, <<228, 162, 162, 162, 156>>,
       <<60, 82, 146, 146, 12>>, <<128, 142, 144, 160, 192>>,
       <<108, 146, 146, 146, 108>>, <<96, 146, 146, 148, 120>>,
       <<0, 108, 108, 0, 0>>, <<0, 106, 108, 0, 0>>,
       <<0, 16, 40, 68, 130>>, <<40, 40, 40, 40, 40>>,
       <<130, 68, 40, 16, 0>>, <<64, 128, 138, 144, 96>>,
       <<76, 146, 158, 130, 124>>, <<126, 136, 136, 136, 126>>,
       <<254, 146, 146, 146, 108>>, <<124, 130, 130, 130, 68>>,
       <<254, 130, 130, 68, 56>>, <<254, 146, 146, 146, 130>>,
       <<254, 144, 144, 128, 128>>, <<124, 130, 130, 138, 76>>,
       <<254, 16, 16, 16, 254>>, <<0, 130, 254, 130, 0>>,
       <<4, 2, 130, 252, 128>>, <<254, 16, 40, 68, 130>>,
       <<254, 2, 2, 2, 2>>, <<254, 64, 32, 64, 254>>,
       <<254, 32, 16, 8, 254>>, <<124, 130, 130, 130, 124>>,
       <<254, 144, 144, 144, 96>>, <<124, 130, 138, 132, 122>>,
       <<254, 144, 152, 148, 98>>, <<98, 146, 146, 146, 140>>,
       <<128, 128, 254, 128, 128>>, <<252, 2, 2, 2, 252>>,
       <<248, 4, 2, 4, 248>>, <<254, 4, 24, 4, 254>>,
       <<198, 40, 16, 40, 198>>, <<192, 32, 30, 32, 192>>,
       <<134, 138, 146, 162, 194>>, <<0, 0, 254, 130, 130>>,
       <<64, 32, 16, 8, 4>>, <<130, 130, 254, 0, 0>>,
       <<96, 144, 144, 96, 0>>, <<2, 2, 2, 2, 2>>, <<4, 42, 42, 42, 30>>,
       <<254, 18, 34, 34, 28>>, <<28, 34, 34, 34, 4>>,
       <<28, 34, 34, 18, 254>>, <<28, 42, 42, 42, 24>>,
       <<16, 126, 144, 128, 64>>, <<16, 40, 42, 42, 60>>,
       <<254, 16, 32, 32, 30>>, <<0, 34, 190, 2, 0>>,
       <<4, 2, 34, 188, 0>>, <<0, 254, 8, 20, 34>>, <<0, 130, 254, 2, 0>>,
       <<62, 32, 24, 32, 30>>, <<62, 16, 32, 32, 30>>,
       <<28, 34, 34, 34, 28>>, <<62, 40, 40, 40, 16>>,
       <<16, 40, 40, 24, 62>>, <<62, 16, 32, 32, 16>>,
       <<18, 42, 42, 42, 4>>, <<32, 252, 34, 2, 4>>, <<60, 2, 2, 4, 62>>,
       <<56, 4, 2, 4, 56>>, <<60, 2, 12, 2, 60>>, <<34, 20, 8, 20, 34>>,
       <<48, 10, 10, 10, 60>>, <<34, 38, 42, 50, 34>>,
       <<0, 16, 108, 130, 0>>, <<0, 0, 254, 0, 0>>,
       <<0, 130, 108, 16, 0>>, <<0, 0, 0, 0, 0>> >>

FontTable ==
    [k \in Range(FontLetters) |->
        FontGlyphs[CHOOSE i \in DOMAIN FontLetters : FontLetters[i] = k]]

FONT5x7(letter) ==
    IF letter \in DOMAIN FontTable THEN FontTable[letter] ELSE FONT_INVALID

LogoNames ==
    << <<":", ")">>,
       <<":", "(">>,
       <<":", "D">>,
       <<":", "]">>,
       <<":", "|">>,
       <<":", "[">>,
       <<":", "o">>,
       <<":", "O">>,
       <<":", "s", "h", "i", "t">>,
       <<":", "s", "k", "u", "l", "l">>,
       <<":", "a", "l", "i", "e", "n">>,
       <<":", "h", "e", "a", "r", "t">>,
       <<":", "c", "a", "t">>,
       <<":", "b", "a", "t">>,
       <<":", "c", "l", "o", "c", "k">>,
       <<":", "l", "e", "f", "t">>,
       <<":", "r", "i", "g", "h", "t">>,
       <<":", "u", "p">>,
       <<":", "d", "o", "w", "n">>,
       <<":", "s", "u", "n", "n", "y">>,
       <<":", "r", "a", "i", "n", "y">>,
       <<":", "c", "l", "o", "u", "d", "y">>,
       <<":", "s", "t", "o", "r", "m", "y">>,
       <<":", "f", "o", "g", "g", "y">>,
       <<":", "s", "n", "o", "w", "y">>,
       <<":", "n", "i", "g", "h", "t">> >>

LogoColumns ==
    << <<60, 66, 169, 133, 165, 137, 66, 60>>,
       <<60, 66, 165, 137, 169, 133, 66, 60>>,
       <<60, 66, 173, 133, 165, 141, 66, 60>>,
       <<60, 66, 173, 133, 165, 141, 66, 60>>,
       <<60, 66, 165, 133, 165, 133, 66, 60>>,
       <<60, 66, 173, 137, 169, 141, 66, 60>>,
       <<60, 66, 161, 141, 173, 129, 66, 60>>,
       <<60, 66, 173, 141, 173, 141, 66, 60>>,
       <<6, 13, 21, 213, 181, 149, 65, 50, 12>>,
       <<120, 223, 222, 247, 222, 223, 120>>,
       <<120, 204, 230, 255, 230, 204, 120>>,
       <<112, 136, 132, 130, 65, 130, 132, 136, 112>>,
       <<28, 98, 137, 89, 35, 43, 89, 129, 98, 28>>,
       <<120, 132, 136, 144, 136, 68, 72, 44, 254, 65, 43, 35, 43, 65, 254, 44, 72, 68, 136, 144, 136, 132, 120>>,
       <<16, 34, 65, 121, 73, 42, 28>>, <<24, 60, 126, 255, 60, 60, 60>>,
       <<60, 60, 60, 255, 126, 60, 24>>,
       <<16, 48, 127, 255, 255, 127, 48, 16>>,
       <<8, 12, 254, 255, 255, 254, 12, 8>>,
       <<8, 137, 90, 36, 194, 67, 36, 90, 145, 16>>,
       <<57, 70, 133, 134, 133, 102, 37, 38, 24>>,
       <<56, 68, 132, 132, 132, 100, 36, 36, 24>>,
       <<24, 43, 94, 148, 152, 139, 94, 84, 56>>,
       <<52, 76, 149, 149, 149, 117, 49, 17, 17>>,
       <<50, 77, 138, 141, 138, 109, 42, 45, 16>>,
       <<60, 66, 153, 165, 195, 66>> >>

LOGOS ==
    [k \in Range(LogoNames) |->
        LogoColumns[CHOOSE i \in DOMAIN LogoNames : LogoNames[i] = k]]

Digits == <<"0", "1", "2", "3", "4", "5", "6", "7", "8", "9">>

DigitValue(c) == CHOOSE v \in 0..9 : Digits[v + 1] = c

IsDigit(c) == \E v \in 0..9 : Digits[v + 1] = c

\* the %d format of n
RECURSIVE FormatInt(_)
FormatInt(n) ==
    IF n < 10 THEN <<Digits[n + 1]>>
    ELSE FormatInt(n \div 10) \o <<Digits[(n % 10) + 1]>>

\* the %0.2d format of n
FormatInt2(n) == IF n < 10 THEN <<"0">> \o FormatInt(n) ELSE FormatInt(n)

\* int(digits)
RECURSIVE ParseInt(_)
ParseInt(s) ==
    IF s = <<>> THEN 0
    ELSE 10 * ParseInt(SubSeq(s, 1, Len(s) - 1)) + DigitValue(s[Len(s)])

\* message.find(token): 1-based position of the first occurrence, 0 when absent
Find(message, token) ==
    LET hits == {i \in 1..(Len(message) - Len(token) + 1) :
                    SubSeq(message, i, i + Len(token) - 1) = token}
    IN  IF hits = {} THEN 0 ELSE Min(hits)

\* message.replace(token, PATTERN_REPLACEMENT*len(token), 1) at position pos
Blank(message, pos, n) ==
    [i \in 1..Len(message) |->
        IF i >= pos /\ i < pos + n THEN PATTERN_REPLACEMENT ELSE message[i]]

DictSet(dict, key, value) ==
    [k \in DOMAIN dict \cup {key} |-> IF k = key THEN value ELSE dict[k]]

EmptyDict == [k \in {} |-> 0]

unit_minutes == <<"m", "i", "n", "u", "t", "e", "s">>
unit_hours == <<"h", "o", "u", "r", "s">>
unit_days == <<"d", "a", "y", "s">>

\* timestamp is a duration in ticks; int(float(timestamp)/60.0) counts seconds
human_readable_duration(timestamp) ==
    LET secs == timestamp \div Resolution
    IN  IF timestamp < 3600 * Resolution
        THEN FormatInt(secs \div 60) \o <<" ">> \o unit_minutes
        ELSE IF timestamp < 86400 * Resolution
        THEN FormatInt(secs \div 3600) \o <<" ">> \o unit_hours
        ELSE FormatInt(secs \div 86400) \o <<" ">> \o unit_days

\* the while loop of one logo: every occurrence is blanked and recorded
RECURSIVE SearchLogo(_, _)
SearchLogo(st, logo) ==
    LET pos == Find(st.message, logo)
    IN  IF pos = 0 THEN st
        ELSE SearchLogo(
                [message |-> Blank(st.message, pos, Len(logo)),
                 patterns |-> DictSet(st.patterns, pos,
                                      [type |-> "logo", value |-> logo])],
                logo)

RECURSIVE SearchLogos(_, _)
SearchLogos(st, k) ==
    IF k > Len(LogoNames) THEN st
    ELSE IF Find(st.message, LogoNames[k]) = 0 THEN SearchLogos(st, k + 1)
    ELSE SearchLogos(SearchLogo(st, LogoNames[k]), k + 1)

TimeTag == <<":", "t", "i", "m", "e">>

\* number of digits of message starting at position i
RECURSIVE DigitRun(_, _)
DigitRun(message, i) ==
    IF i <= Len(message) /\ IsDigit(message[i])
    THEN 1 + DigitRun(message, i + 1) ELSE 0

\* re.finditer of the pattern (:time)(:[0-9]+)? over message from position i on:
\* the matches, left to right, each with its start and the length of group 2
RECURSIVE TimeMatches(_, _)
TimeMatches(message, i) ==
    IF i + Len(TimeTag) - 1 > Len(message) THEN <<>>
    ELSE IF SubSeq(message, i, i + Len(TimeTag) - 1) = TimeTag
    THEN LET j == i + Len(TimeTag)
             n == IF j <= Len(message) /\ message[j] = ":"
                  THEN DigitRun(message, j + 1) ELSE 0
             g2 == IF n > 0 THEN n + 1 ELSE 0
         IN  <<[start |-> i, group2 |-> g2]>>
                 \o TimeMatches(message, i + Len(TimeTag) + g2)
    ELSE TimeMatches(message, i + 1)

\* the value recorded for one time tag, read at time now_ts (ticks)
TimeValue(original, m, now_ts) ==
    IF m.group2 > 0
    THEN LET ts == ParseInt(SubSeq(original, m.start + Len(TimeTag) + 1,
                                   m.start + Len(TimeTag) + m.group2 - 1))
                   * Resolution
         IN  IF now_ts <= ts THEN human_readable_duration(ts - now_ts)
             ELSE <<"[", "O", "V", "E", "R", "]">>
    ELSE LET secs == now_ts \div Resolution
         IN  FormatInt2((secs \div 3600) % 24) \o <<":">>
                 \o FormatInt2((secs \div 60) % 60)

RECURSIVE SearchTimes(_, _, _, _)
SearchTimes(st, matches, original, now_ts) ==
    IF matches = <<>> THEN st
    ELSE LET m == Head(matches)
             n == Len(TimeTag) + m.group2
             pos == Find(st.message, SubSeq(original, m.start, m.start + n - 1))
         IN  SearchTimes(
                [message |-> Blank(st.message, pos, n),
                 patterns |-> DictSet(st.patterns, m.start,
                                      [type |-> "text",
                                       value |-> TimeValue(original, m, now_ts)])],
                Tail(matches), original, now_ts)

search_for_patterns(message, now_ts) ==
    LET logos == SearchLogos([message |-> message, patterns |-> EmptyDict], 1)
        matches == TimeMatches(logos.message, 1)
        times == SearchTimes(logos, matches, logos.message, now_ts)
    IN  [patterns |-> times.patterns,
         message |-> times.message,
         evolutive |-> matches # <<>>]

append_letter(buf, letter) ==
    IF letter # PATTERN_REPLACEMENT THEN buf \o FONT5x7(letter) ELSE buf

append_logo(buf, logo) == buf \o LOGOS[logo]

RECURSIVE append_text(_, _)
append_text(buf, text) ==
    IF text = <<>> THEN buf
    ELSE append_text(append_letter(buf, Head(text)), Tail(text))

\* the walk shared by __get_message_length and the buffer fill:
\* the columns appended for the characters of message from index on
RECURSIVE MessageColumns(_, _, _)
MessageColumns(message, patterns, index) ==
    IF index > Len(message) THEN <<>>
    ELSE (IF index \in DOMAIN patterns
          THEN IF patterns[index].type = "logo"
               THEN append_logo(<<>>, patterns[index].value)
               ELSE append_text(<<>>, patterns[index].value)
          ELSE append_letter(<<>>, message[index]))
         \o MessageColumns(message, patterns, index + 1)

FillBuffer(buf, message, patterns, index) ==
    buf \o MessageColumns(message, patterns, index)

get_message_length(message, patterns) ==
    Len(FillBuffer(<<>>, message, patterns, 1))

----------------------------------------------------------------------------
(* HT1632C driver: state and operations.  The driver state is handled as   *)
(* a record d with the fields turned_on, scrolling_thread, threads,        *)
(* panel_cleared, last_hw_reset, plus io, the pixel writes and bus frames  *)
(* of the operation in progress, and raised, the exception it raised.      *)
(* One frame (select, transfer, deselect under the lock) is one io entry.  *)
(* Once d.raised is set the rest of the operation does not run.  A thread  *)
(* that finds the lock held never returns from acquire(True), as nothing   *)
(* releases a lock that is held between two operations: it is "Blocked".   *)

HT1632_ID_CMD == 4
HT1632_ID_WR == 5
HT1632_CMD_SYSON == 1
HT1632_CMD_LEDON == 3
HT1632_CMD_BLOFF == 8
HT1632_CMD_RCCLK == 24
HT1632_CMD_PWM == 160

Panels == 0..(panels - 1)

ALL_LEDS_OFF == [i \in 1..PanelColumns |-> 0]

NoError == "None"

\* threading.Lock(), not acquired, nobody waiting; waiting holds the
\* callers blocked for good
Unlocked == [held |-> FALSE, waiting |-> {}]

\* the threads that use the bus: the thread of the periodic task, the
\* thread of a command handler, the scroll animation
Callers == {"task", "command", "scroll"}

\* a thread that is not sending a frame, and all of them so
NoFrame == [pc |-> "idle", kind |-> "none", panel |-> panels]

Idle == [c \in Callers |-> NoFrame]

\* no pixel frame has reached a panel since the initialisation
Unwritten == [p \in 0..(panels - 1) |-> "none"]

\* no thread is inside __reset_hardware
NoReset == [c \in Callers |-> [pc |-> "idle", sent |-> 0]]

\* no scroll pass is in progress
NoPass == [pc |-> "idle"]

\* lock.acquire(True), __select_panel(panel), spi.writebytes(buf),
\* __select_panel(None), lock.release().  GPIO.output raises on lines that
\* were cleaned up and writebytes on a closed or failing bus, and an
\* exception leaves the method before the release: the lock stays held.
\* A failing bus fails one transfer.
Transfer(d, panel, entry) ==
    IF d.lock.held THEN [d EXCEPT !.raised = "Blocked"]
    ELSE IF ~d.gpio
    THEN [d EXCEPT !.lock.held = TRUE, !.raised = "RuntimeError",
                   !.io = Append(@, [kind |-> "failed", at |-> "select", panel |-> panel])]
    ELSE IF d.spi # "open"
    THEN [d EXCEPT !.lock.held = TRUE, !.raised = "IOError",
                   !.spi = IF @ = "faulty" THEN "open" ELSE @,
                   !.io = Append(@, [kind |-> "failed", at |-> "transfer", panel |-> panel])]
    ELSE [d EXCEPT !.io = Append(@, entry)]

RECURSIVE BitOr(_, _)
BitOr(a, b) ==
    IF a = 0 THEN b
    ELSE IF b = 0 THEN a
    ELSE 2 * BitOr(a \div 2, b \div 2) + (IF a % 2 = 1 \/ b % 2 = 1 THEN 1 ELSE 0)

\* x & mask, the mask being span - 1 shifted left to the bit of value unit
\* (0xE0: unit 32, span 8; 0x3F: unit 1, span 64; 0xC0: unit 64, span 4)
AndMask(x, unit, span) == ((x \div unit) % span) * unit

get_board_size == panels * PanelColumns

\* a buffer of the size asked for, however small
get_buffer_as_asked(size) == [i \in 1..size |-> 0]

\* np.zeros((size,)): size defaults to the board size and is never smaller
get_buffer(size) ==
    IF size < get_board_size
    THEN [i \in 1..get_board_size |-> 0]
    ELSE [i \in 1..size |-> 0]

\* scipy shift(buf, n, cval=0): a translation, vacated columns are zero
shift(buf, n) ==
    [i \in 1..Len(buf) |->
        IF i - n >= 1 /\ i - n <= Len(buf) THEN buf[i - n] ELSE 0]

\* buf with the columns of data written from 0-based position on
Overlay(buf, data, position) ==
    [i \in 1..Len(buf) |->
        IF i > position /\ i <= position + Len(data)
        THEN data[i - position] ELSE buf[i]]

CommandFrame(command) ==
    <<BitOr(HT1632_ID_CMD * 32, command \div 8), command * 32>>

\* the 34 bytes built from the 32 columns of one panel; the or of two
\* disjoint bit fields is their sum
PixelFrame(pixels) ==
    [k \in 1..(PanelColumns + 2) |->
        IF k = 1 THEN AndMask(HT1632_ID_WR * 32, 32, 8)
        ELSE IF k = 2 THEN AndMask(pixels[1], 1, 64) \div 4
        ELSE AndMask(pixels[k - 2] * 64, 64, 4)
                 + AndMask(pixels[((k - 2) % PanelColumns) + 1] \div 4, 1, 64)]

\* a count that takes in the two header bytes of the frame
NonZerosWithHeader(buf) == Cardinality({k \in 1..Len(buf) : buf[k] # 0})

\* np.count_nonzero(buf[2:])
NonZeros(buf) == Cardinality({k \in 3..Len(buf) : buf[k] # 0})

write_command_to_panel(d, panel, command) ==
    IF d.raised # NoError THEN d
    ELSE Transfer(d, panel, [kind |-> "command", panel |-> panel,
                             frame |-> CommandFrame(command)])

\* the part of __write_pixels_to_panel after the frame is built: zero tells
\* whether the frame has no lit pixel; a write that returns before the
\* transfer is recorded with sent FALSE
WriteFrame(d, panel, zero) ==
    LET sent == [kind |-> "pixels", panel |-> panel, zero |-> zero, sent |-> TRUE]
        skipped == [kind |-> "pixels", panel |-> panel, zero |-> zero, sent |-> FALSE]
    IN  IF d.raised # NoError THEN d
        ELSE IF zero
        THEN IF ~d.panel_cleared[panel]
             THEN Transfer([d EXCEPT !.panel_cleared[panel] = TRUE], panel, sent)
             ELSE [d EXCEPT !.io = Append(@, skipped)]
        ELSE Transfer([d EXCEPT !.panel_cleared[panel] = FALSE], panel, sent)

write_pixels_to_panel(d, panel, pixels) ==
    WriteFrame(d, panel, NonZeros(PixelFrame(pixels)) = 0)

RECURSIVE WritePanels(_, _, _)
WritePanels(d, pixels, panel) ==
    IF panel >= panels THEN d
    ELSE WritePanels(
            write_pixels_to_panel(d, panel,
                SubSeq(pixels, panel * PanelColumns + 1,
                       panel * PanelColumns + PanelColumns)),
            pixels, panel + 1)

write_pixels(d, pixels, index) ==
    IF d.raised # NoError THEN d
    ELSE IF Len(pixels) < get_board_size \/ Len(pixels) - index < get_board_size
    THEN [d EXCEPT !.raised = "InvalidBuffer"]
    ELSE WritePanels(d, SubSeq(pixels, index + 1, index + get_board_size), 0)

InitPanel(d, panel) ==
    write_command_to_panel(
      write_command_to_panel(
        write_command_to_panel(
          write_command_to_panel(
            write_command_to_panel(
              IF d.raised # NoError THEN d
              ELSE [d EXCEPT !.panel_cleared[panel] = FALSE],
              panel, HT1632_CMD_RCCLK),
            panel, HT1632_CMD_SYSON),
          panel, HT1632_CMD_LEDON),
        panel, BitOr(HT1632_CMD_PWM, 15)),
      panel, HT1632_CMD_BLOFF)

RECURSIVE InitPanels(_, _)
InitPanels(d, panel) ==
    IF panel >= panels THEN d ELSE InitPanels(InitPanel(d, panel), panel + 1)

\* the update of __last_hw_reset that ends __init_hardware
InitDone(d, now_ts) ==
    IF d.raised # NoError THEN d ELSE [d EXCEPT !.last_hw_reset = now_ts]

\* spidev.SpiDev(0, 0) opens the bus
init_hardware(d, now_ts) ==
    InitDone(InitPanels([d EXCEPT !.spi = "open",
                                  !.io = Append(@, [kind |-> "spi_open"])], 0),
             now_ts)

reset_hardware(d, now_ts) ==
    IF d.raised # NoError THEN d
    ELSE IF now_ts > d.last_hw_reset + RESET_HW_DELAY * Resolution
    THEN init_hardware([d EXCEPT !.spi = "closed",
                                 !.io = Append(@, [kind |-> "spi_close"])], now_ts)
    ELSE d

stop_scrolling_thread(d) ==
    IF d.scrolling_thread # None
    THEN [d EXCEPT !.threads[d.scrolling_thread].continu = FALSE,
                   !.scrolling_thread = None]
    ELSE d

\* whether the frame built from ALL_LEDS_OFF has no lit pixel
AllLedsOffIsZero == NonZeros(PixelFrame(ALL_LEDS_OFF)) = 0

\* __write_pixels_to_panel(panel, ALL_LEDS_OFF) for every panel
RECURSIVE ClearPanels(_, _)
ClearPanels(d, panel) ==
    IF panel >= panels THEN d
    ELSE ClearPanels(WriteFrame(d, panel, AllLedsOffIsZero), panel + 1)

\* a clear that leaves the scrolling thread running
ClearWithoutStop(d) == ClearPanels(d, 0)

clear(d) == ClearPanels(stop_scrolling_thread(d), 0)

\* the end of cleanup: GPIO.cleanup() and self.__spi.close()
Released(d) ==
    IF d.raised # NoError THEN d
    ELSE [d EXCEPT !.gpio = FALSE, !.spi = "closed",
                   !.io = d.io \o <<[kind |-> "gpio_cleanup"], [kind |-> "spi_close"]>>]

\* cleanup(): the stop before clear() finds no thread left to stop
cleanup(d) == Released(clear(stop_scrolling_thread(d)))

NewThread(d) == Min({t \in 1..(Cardinality(DOMAIN d.threads) + 1) : t \notin DOMAIN d.threads})

\* ScrollingMessage(...).start(): the thread is about to test its loop condition
StartScrolling(d) ==
    LET t == NewThread(d)
    IN  [d EXCEPT !.threads = [x \in DOMAIN d.threads \cup {t} |->
                                  IF x = t THEN [continu |-> TRUE, pc |-> "loop",
                                                 exhausted |-> FALSE, late |-> 0]
                                  ELSE d.threads[x]],
                  !.scrolling_thread = t]

\* a branch that scrolls a message as wide as the board
ScrollAtBoardSize(d, found, message_length, position) ==
    IF message_length >= get_board_size
    THEN [d |-> StartScrolling(d), ret |-> found.evolutive]
    ELSE [d |-> write_pixels(d,
                    shift(Overlay(get_buffer(message_length),
                                  FillBuffer(<<>>, found.message, found.patterns, 1),
                                  0),
                          position),
                    0),
          ret |-> found.evolutive]

\* the scroll-or-display branch, the scrolling thread already stopped
ScrollOrDisplay(d, found, message_length, position) ==
    IF message_length > get_board_size
    THEN [d |-> StartScrolling(d), ret |-> found.evolutive]
    ELSE [d |-> write_pixels(d,
                    shift(Overlay(get_buffer(message_length),
                                  FillBuffer(<<>>, found.message, found.patterns, 1),
                                  0),
                          position),
                    0),
          ret |-> found.evolutive]

\* display_message from the pattern search on, the board being on
DisplayFound(d, found, position) ==
    ScrollOrDisplay(stop_scrolling_thread(d), found,
                    get_message_length(found.message, found.patterns), position)

\* display_message after the watchdog check
DisplayChecked(d, message, position, now_ts) ==
    IF d.raised # NoError \/ ~d.turned_on THEN [d |-> d, ret |-> FALSE]
    ELSE DisplayFound(d, search_for_patterns(message, now_ts), position)

\* display_message(message, position) called at time now_ts:
\* the driver state it leaves and the value it returns
display_message(d, message, position, now_ts) ==
    DisplayChecked(reset_hardware(d, now_ts), message, position, now_ts)

driver_turn_on(d) == [d EXCEPT !.turned_on = TRUE]

driver_turn_off(d) == clear([d EXCEPT !.turned_on = FALSE])

----------------------------------------------------------------------------
(* Message entity and the plugin state *)

\* a generator that repeats itself
uuid4Repeated(n) == "uuid" \o ToString(1)

\* uuid.uuid4(): the n-th identifier generated, distinct from all others
uuid4(n) == "uuid" \o ToString(n)

\* a message that keeps the identifier its constructor drew, whatever
\* identifier it is then given
MessageOwnUuid(message, start, end, uuid) ==
    [message |-> message, start |-> start, end |-> end,
     displayed_time |-> 0, dynamic |-> FALSE,
     uuid |-> "uuid" \o ToString(uuid_count + 1)]

\* Message(message, start, end), its uuid drawn by the constructor
Message(message, start, end, uuid) ==
    [message |-> message, start |-> start, end |-> end,
     displayed_time |-> 0, dynamic |-> FALSE, uuid |-> uuid]

to_dict(m) ==
    [uuid |-> m.uuid, message |-> m.message, start |-> m.start,
     end |-> m.end, displayed_time |-> m.displayed_time]

\* a load that keeps the identifier the constructor drew
FromDictOwnUuid(m, entry) ==
    [m EXCEPT !.message = entry.message, !.start = entry.start, !.end = entry.end]

\* Message.from_dict(entry) on the message m
from_dict(m, entry) ==
    [m EXCEPT !.message = entry.message, !.start = entry.start,
              !.end = entry.end, !.uuid = entry.uuid]

\* time.time() and int(time.time()), in ticks
time == clock

int(t) == (t \div Resolution) * Resolution

Bool(b) == IF b THEN "True" ELSE "False"

Refs == 1..(MaxMessages + 1)

\* a reference no live object has
NewRef == Min({r \in Refs : r \notin DOMAIN heap})

\* the objects still referenced from the list or as current message
Collect(hp, msgs, cur) ==
    [r \in {x \in DOMAIN hp : x \in Range(msgs) \/ x = cur} |-> hp[r]]

Driver ==
    [turned_on |-> turned_on, scrolling_thread |-> scrolling_thread,
     threads |-> threads, panel_cleared |-> panel_cleared,
     last_hw_reset |-> last_hw_reset, spi |-> spi, gpio |-> gpio,
     lock |-> lock, io |-> <<>>, raised |-> NoError]

SetDriver(d) ==
    /\ turned_on' = d.turned_on
    /\ scrolling_thread' = d.scrolling_thread
    /\ threads' = d.threads
    /\ panel_cleared' = d.panel_cleared
    /\ last_hw_reset' = d.last_hw_reset
    /\ spi' = d.spi
    /\ gpio' = d.gpio
    /\ lock' = d.lock

driver_vars == <<turned_on, scrolling_thread, threads, panel_cleared, last_hw_reset,
                 spi, gpio, lock>>

plugin_vars == <<messages, heap, current_message, config_messages, uuid_count>>

\* the configuration fields saved by save_configuration and what follows them
settings_vars == <<config_duration, config_speed, scroll_speed, display_task, tasks>>

is_on(d) == d.turned_on

\* a status that reports a board that is off as showing no message
StatusOffAsNoMessage(cur, hp, d) ==
    IF cur = None \/ ~is_on(d)
    THEN [nomessage |-> TRUE, off |-> ~is_on(d), message |-> <<>>]
    ELSE [nomessage |-> FALSE, off |-> FALSE, message |-> <<to_dict(hp[cur])>>]

\* get_current_message() over a given current reference, heap and driver
get_current_message(cur, hp, d) ==
    IF cur = None
    THEN [nomessage |-> TRUE, off |-> FALSE, message |-> <<>>]
    ELSE IF ~is_on(d)
    THEN [nomessage |-> FALSE, off |-> TRUE, message |-> <<>>]
    ELSE [nomessage |-> FALSE, off |-> FALSE, message |-> <<to_dict(hp[cur])>>]

\* what the last operation was and did
Log(op, args, ret, raised, now, head, rendered, evolutive, events, io) ==
    [op |-> op, args |-> args, ret |-> ret, raised |-> raised, now |-> now,
     head |-> head, rendered |-> rendered, evolutive |-> evolutive,
     events |-> events, io |-> io]

\* messages.remove(msg_conf) for the first entry of the configuration with this uuid
RECURSIVE ConfigRemove(_, _)
ConfigRemove(config, uuid) ==
    IF config = <<>> THEN <<>>
    ELSE IF Head(config).uuid = uuid THEN Tail(config)
    ELSE <<Head(config)>> \o ConfigRemove(Tail(config), uuid)

ConfigHas(config, uuid) == \E i \in DOMAIN config : config[i].uuid = uuid

----------------------------------------------------------------------------
(* The display cycle: Messageboard.__display_message *)

\* a test that forgets the start of the window
DisplayableUntilEnd(m, now) == now <= m.end

\* now>=msg.start and now<=msg.end
Displayable(m, now) == now >= m.start /\ now <= m.end

Obsolete(m, now) == now > m.end

\* the same loop run over self.messages itself: a removal shifts the list
\* under the iterator, which then skips the element after the removed one
RECURSIVE ScanLiveList(_, _, _)
ScanLiveList(copy, st, now) ==
    IF copy = <<>> THEN st
    ELSE LET msg == Head(copy)
         IN  IF Displayable(heap[msg], now)
             THEN ScanLiveList(Tail(copy),
                               [st EXCEPT !.to_display = Append(@, msg)], now)
             ELSE IF Obsolete(heap[msg], now)
             THEN ScanLiveList(
                      IF Len(copy) > 1 THEN Tail(Tail(copy)) ELSE <<>>,
                      [st EXCEPT !.config = ConfigRemove(@, heap[msg].uuid),
                                 !.messages = ListRemove(@, msg)],
                      now)
             ELSE ScanLiveList(Tail(copy), st, now)

\* the loop over the copy self.messages[:]; st holds the list, the
\* configuration and messages_to_display as the loop leaves them
RECURSIVE ScanMessages(_, _, _)
ScanMessages(copy, st, now) ==
    IF copy = <<>> THEN st
    ELSE LET msg == Head(copy)
         IN  ScanMessages(Tail(copy),
                IF Displayable(heap[msg], now)
                THEN [st EXCEPT !.to_display = Append(@, msg)]
                ELSE IF Obsolete(heap[msg], now)
                THEN [st EXCEPT !.config = ConfigRemove(@, heap[msg].uuid),
                                !.messages = ListRemove(@, msg)]
                ELSE st,
                now)

\* a sort that is not stable: x goes before the elements it ties with
SortedInsertBeforeTies(sorted, x) ==
    LET k == Cardinality({i \in DOMAIN sorted :
                 heap[sorted[i]].displayed_time < heap[x].displayed_time})
    IN  SubSeq(sorted, 1, k) \o <<x>> \o SubSeq(sorted, k + 1, Len(sorted))

\* list.sort(key=displayed_time), a stable sort: x goes after the
\* elements that do not sort after it
SortedInsert(sorted, x) ==
    LET k == Cardinality({i \in DOMAIN sorted :
                 heap[sorted[i]].displayed_time <= heap[x].displayed_time})
    IN  SubSeq(sorted, 1, k) \o <<x>> \o SubSeq(sorted, k + 1, Len(sorted))

\* no sort at all: the displayable messages in memory order
Unsorted(s) == s

RECURSIVE SortByDisplayedTime(_)
SortByDisplayedTime(s) ==
    IF s = <<>> THEN <<>>
    ELSE SortedInsert(SortByDisplayedTime(SubSeq(s, 1, Len(s) - 1)), s[Len(s)])

\* a test that ignores the dynamic mark
MustDisplayWhenChanged(msg, cur, hp) == msg # cur

\* the test guarding the render of the head message
MustDisplay(msg, cur, hp) == msg # cur \/ hp[msg].dynamic = TRUE

\* the cycle record before the head message is looked at
CycleBase(scan) ==
    [messages |-> scan.messages, config |-> scan.config,
     displayable |-> scan.to_display,
     heap |-> heap, current |-> current_message, d |-> Driver,
     head |-> None, rendered |-> FALSE, evolutive |-> FALSE, events |-> <<>>]

\* the same lines with the event payload taken before the message is updated
AfterDisplayEventFirst(base, msg, shown, now) ==
    LET hp == [heap EXCEPT ![msg].dynamic = shown.ret,
                           ![msg].displayed_time = now]
    IN  [base EXCEPT !.head = msg, !.rendered = TRUE, !.evolutive = shown.ret,
                     !.d = shown.d, !.heap = hp, !.current = msg,
                     !.events = <<get_current_message(msg, heap, shown.d)>>]

\* the same lines run although board.display_message raised
AfterDisplayDespiteError(base, msg, shown, now) ==
    LET hp == [heap EXCEPT ![msg].dynamic = shown.ret,
                           ![msg].displayed_time = now]
    IN  [base EXCEPT !.head = msg, !.rendered = TRUE, !.evolutive = shown.ret,
                     !.d = shown.d, !.heap = hp, !.current = msg,
                     !.events = <<get_current_message(msg, hp, shown.d)>>]

\* the lines after board.display_message returned shown for message msg, or
\* raised: an exception leaves the try block before the three assignments
\* and the event
AfterDisplay(base, msg, shown, now) ==
    LET hp == [heap EXCEPT ![msg].dynamic = shown.ret,
                           ![msg].displayed_time = now]
    IN  IF shown.d.raised # NoError
        THEN [base EXCEPT !.head = msg, !.rendered = TRUE, !.d = shown.d]
        ELSE [base EXCEPT !.head = msg, !.rendered = TRUE,
                          !.evolutive = shown.ret,
                          !.d = shown.d, !.heap = hp, !.current = msg,
                          !.events = <<get_current_message(msg, hp, shown.d)>>]

\* the branch taken when messages_to_display is not empty, msg at its head
DisplayHead(base, msg, now) ==
    IF MustDisplay(msg, current_message, heap)
    THEN AfterDisplay(base, msg,
                      display_message(Driver, heap[msg].message, 0, now), now)
    ELSE [base EXCEPT !.head = msg]

\* the cycle from the sort on
CycleSorted(base, messages_to_display, now) ==
    IF Len(messages_to_display) > 0
    THEN DisplayHead(base, messages_to_display[1], now)
    ELSE [base EXCEPT !.current = None, !.d = clear(Driver)]

CycleScanned(scan, now) ==
    CycleSorted(CycleBase(scan), SortByDisplayedTime(scan.to_display), now)

\* the body of the try block run at time now: the state it leaves
Cycle(now) ==
    CycleScanned(
        ScanMessages(messages,
            [messages |-> messages, config |-> config_messages,
             to_display |-> <<>>], now),
        now)

\* the currents left by the cycles run back to back since every stored
\* message was displayable and nothing else happened, the last
\* Len(messages) of them
NextWindow(c) ==
    IF c.messages = messages /\ Len(c.displayable) = Len(messages)
    THEN LET w == Append(rr_window, c.current)
         IN  IF Len(w) > Len(messages)
             THEN SubSeq(w, Len(w) - Len(messages) + 1, Len(w)) ELSE w
    ELSE <<>>

\* what a cycle remembers of the operation that ran just before it, when
\* that was a replace of a stored message or a turn_on
Before ==
    IF last.op = "add_or_replace_message" /\ last.ret = "True"
    THEN [op |-> last.op, uuid |-> last.args[2], was |-> last.was]
    ELSE IF last.op = "turn_on"
    THEN [op |-> last.op, was |-> last.was]
    ELSE [op |-> "other"]

\* what the cycle c run at time now did; removed counts the messages it dropped
CycleLog(c, now) ==
    [op |-> "display", args |-> <<>>, ret |-> "None", raised |-> NoError,
     now |-> now, head |-> c.head, rendered |-> c.rendered,
     evolutive |-> c.evolutive, events |-> c.events, io |-> c.d.io,
     removed |-> Len(messages) - Len(c.messages), prev |-> Before,
     error |-> c.d.raised]

\* the selection once the current reference is cleared
Cleared == IF selection = "never" THEN "never" ELSE "cleared"

\* the exception is caught and logged and the cycle returns, unless the
\* thread of the task is blocked on the lock
CycleEnd(d) ==
    IF d.raised = "Blocked" THEN [d EXCEPT !.lock.waiting = @ \cup {"task"}] ELSE d

\* the state the cycle c run at time now leaves
CycleDone(c, now) ==
    /\ clock' = now
    /\ DOMAIN c.d.threads \subseteq 1..MaxThreads
    /\ messages' = c.messages
    /\ config_messages' = c.config
    /\ current_message' = c.current
    /\ heap' = Collect(c.heap, c.messages, c.current)
    /\ SetDriver(CycleEnd(c.d))
    /\ uuid_count' = uuid_count
    /\ last' = CycleLog(c, now)
    /\ rr_window' = NextWindow(c)
    /\ selection' = IF c.head # None THEN "selected" ELSE Cleared
    /\ UNCHANGED <<settings_vars, bus_pc,
                   wire, reset_pc, pass>>

\* the task calls it while it runs and its thread is free
__display_message(now) ==
    /\ tasks[display_task].running
    /\ "task" \notin lock.waiting
    /\ now > clock
    /\ CycleDone(Cycle(now), now)

----------------------------------------------------------------------------
(* The plugin operations *)

NoCycle ==
    /\ clock' = clock
    /\ rr_window' = <<>>
    /\ UNCHANGED <<settings_vars, bus_pc,
                   wire, reset_pc, pass>>

add_message(message, start, end) ==
    LET ref == NewRef
        msg == Message(message, start, end, uuid4(uuid_count + 1))
    IN  /\ Len(messages) < MaxMessages
        /\ uuid_count < MaxUuids
        /\ uuid_count' = uuid_count + 1
        /\ config_messages' = Append(config_messages, to_dict(msg))
        /\ messages' = Append(messages, ref)
        /\ heap' = [r \in DOMAIN heap \cup {ref} |-> IF r = ref THEN msg ELSE heap[r]]
        /\ current_message' = current_message
        /\ last' = Log("add_message", <<message, start, end>>, msg.uuid, NoError,
                       0, None, FALSE, FALSE, <<>>, <<>>)
        /\ UNCHANGED <<driver_vars, selection>>
        /\ NoCycle

\* the first stored message with this uuid, as the second loop of
\* delete_message finds it
FirstWithUuid(msgs, uuid) ==
    LET hits == {i \in DOMAIN msgs : heap[msgs[i]].uuid = uuid}
    IN  IF hits = {} THEN None ELSE msgs[Min(hits)]

\* the exception the closing debug line raises: msg is whatever the loops
\* bound last, a Message, a configuration dict, or nothing at all
DeleteLogError(config, msgs) ==
    IF msgs # <<>> THEN NoError
    ELSE IF config # <<>> THEN "AttributeError"
    ELSE "UnboundLocalError"

delete_message(uuid) ==
    LET deleted == ConfigHas(config_messages, uuid)
        found == FirstWithUuid(messages, uuid)
        msgs == IF found = None THEN messages ELSE ListRemove(messages, found)
        raised == DeleteLogError(config_messages, messages)
    IN  /\ config_messages' = ConfigRemove(config_messages, uuid)
        /\ messages' = msgs
        /\ heap' = Collect(heap, msgs, current_message)
        /\ current_message' = current_message
        /\ uuid_count' = uuid_count
        /\ last' = Log("delete_message", <<uuid>>,
                       IF raised = NoError THEN Bool(deleted) ELSE "None", raised,
                       0, None, FALSE, FALSE, <<>>, <<>>)
        /\ UNCHANGED <<driver_vars, selection>>
        /\ NoCycle

\* a replace that leaves the configuration as it was
ConfigKept(config, uuid, message, start, end) == config

\* the configuration with the first entry carrying uuid overwritten
RECURSIVE ConfigReplace(_, _, _, _, _)
ConfigReplace(config, uuid, message, start, end) ==
    IF config = <<>> THEN <<>>
    ELSE IF Head(config).uuid = uuid
    THEN <<[Head(config) EXCEPT !.message = message, !.start = start, !.end = end]>>
             \o Tail(config)
    ELSE <<Head(config)>> \o ConfigReplace(Tail(config), uuid, message, start, end)

\* a replace that leaves the current reference as it was
CurrentKept(inmem, cur) == cur

\* the current reference after the loop over self.messages: dropped as soon
\* as one stored message carries the uuid
CurrentAfterReplace(inmem, cur) == IF inmem # {} THEN None ELSE cur

\* how the stored messages inmem stood before they are replaced by message
ReplacedWas(inmem, message) ==
    [current |-> current_message \in inmem,
     same_text |-> inmem # {} /\ \A r \in inmem : heap[r].message = message,
     dynamic |-> \E r \in inmem : heap[r].dynamic]

add_or_replace_message(message, uuid) ==
    LET replaced == ConfigHas(config_messages, uuid)
        start == int(time)
        end == start + WEEK * Resolution
        inmem == {r \in Range(messages) : heap[r].uuid = uuid}
        ref == NewRef
        msg == Message(message, start, end, uuid)
    IN  /\ IF replaced
           THEN /\ config_messages' =
                       ConfigReplace(config_messages, uuid, message, start, end)
                /\ messages' = messages
                /\ current_message' = CurrentAfterReplace(inmem, current_message)
                /\ heap' = Collect(
                       [r \in DOMAIN heap |->
                           IF r \in inmem
                           THEN [heap[r] EXCEPT !.message = message,
                                                !.start = start, !.end = end]
                           ELSE heap[r]],
                       messages, CurrentAfterReplace(inmem, current_message))
                /\ uuid_count' = uuid_count
                /\ selection' = IF inmem # {} THEN Cleared ELSE selection
           ELSE /\ Len(messages) < MaxMessages
                /\ uuid_count < MaxUuids
                /\ uuid_count' = uuid_count + 1
                /\ config_messages' = Append(config_messages, to_dict(msg))
                /\ messages' = Append(messages, ref)
                /\ heap' = [r \in DOMAIN heap \cup {ref} |->
                               IF r = ref THEN msg ELSE heap[r]]
                /\ current_message' = current_message
                /\ selection' = selection
        /\ last' = Log("add_or_replace_message", <<message, uuid>>, Bool(replaced),
                       NoError, time, None, FALSE, FALSE, <<>>, <<>>)
                   @@ [was |-> ReplacedWas(inmem, message)]
        /\ UNCHANGED driver_vars
        /\ NoCycle

\* self.messageboardMessageUpdate(params=...): the event object is called,
\* not sent; whether the host's event class accepts the call is not decided
\* by this repository: if it does not, the call raises (a TypeError or an
\* AttributeError, as the class is new-style or old-style)
CallEvent(callable, params) ==
    IF callable THEN [events |-> <<params>>, raised |-> NoError]
    ELSE [events |-> <<>>, raised |-> "NotCallable"]

\* the end of turn_on and turn_off: the driver left as d, the current
\* reference as cur, the event called with the current message
Switched(op, callable, d, cur) ==
    LET pushed == CallEvent(callable, get_current_message(cur, heap, d))
    IN  /\ SetDriver(d)
        /\ current_message' = cur
        /\ heap' = Collect(heap, messages, cur)
        /\ UNCHANGED <<messages, config_messages, uuid_count>>
        /\ last' = Log(op, <<>>, "None", pushed.raised, 0, None, FALSE, FALSE,
                       pushed.events, d.io)
                   @@ [was |-> current_message]
        /\ selection' = IF op = "turn_on" THEN Cleared ELSE selection
        /\ NoCycle

turn_on(callable) ==
    Switched("turn_on", callable, driver_turn_on(Driver), None)

turn_off(callable) ==
    Switched("turn_off", callable, driver_turn_off(clear(Driver)), current_message)

----------------------------------------------------------------------------
(* The clock notifications of the host: the formatter fills a profile and  *)
(* the host hands it to Messageboard._render.                              *)

DisplayAddOrReplaceMessageProfile ==
    [type |-> "DisplayAddOrReplaceMessageProfile", message |-> <<>>, uuid |-> ""]

\* a formatter that names the message after the minute it shows
FillProfileByMinute(event_values, profile) ==
    [profile EXCEPT
        !.uuid = "currenttime" \o ToString(event_values.minute),
        !.message = <<":", "c", "l", "o", "c", "k", ":", " ">>
                        \o FormatInt2(event_values.hour) \o <<":">>
                        \o FormatInt2(event_values.minute)]

\* TimeToDisplayAddOrReplaceMessageFormatter._fill_profile: the text is
\* u':clock: %02d:%02d %02d/%02d/%d' % (hour, minute, day, month, year)
_fill_profile(event_values, profile) ==
    [profile EXCEPT
        !.uuid = "currenttime",
        !.message = <<":", "c", "l", "o", "c", "k", ":", " ">>
                        \o FormatInt2(event_values.hour) \o <<":">>
                        \o FormatInt2(event_values.minute) \o <<" ">>
                        \o FormatInt2(event_values.day) \o <<"/">>
                        \o FormatInt2(event_values.month) \o <<"/">>
                        \o FormatInt(event_values.year)]

\* Messageboard._render(profile): the profile is of one of the two types
\* of RENDERER_PROFILES
_render(profile) ==
    IF profile.type = "DisplayAddOrReplaceMessageProfile"
    THEN add_or_replace_message(profile.message, profile.uuid)
    ELSE add_message(profile.message, profile.start, profile.end)

\* the event parameters.time.now reaches the plugin through its formatter
parameters_time_now(event_values) ==
    _render(_fill_profile(event_values, DisplayAddOrReplaceMessageProfile))

----------------------------------------------------------------------------
(* The configuration of the board: Messageboard.save_configuration.  An    *)
(* argument is <<>> when it is None and <<value>> otherwise; a scroll      *)
(* speed is counted in 1/10000 second.                                     *)

Missing == <<>>

SPEEDS == [slow |-> 25, normal |-> 50, fast |-> 75]

DEFAULT_CONFIG == [duration |-> 60, messages |-> <<>>, speed |-> "normal"]

\* BackgroundTask(self.__display_message, self.logger, interval), started
BackgroundTask(interval) == [interval |-> interval, running |-> TRUE]

\* a stop that leaves the task running
TaskLeftRunning(ts, t) == ts

\* self.__display_task.stop(), when there is a display task
TaskStop(ts, t) == IF t # None THEN [ts EXCEPT ![t].running = FALSE] ELSE ts

\* the same checks, the speed looked at before the duration
CheckSpeedFirst(duration, speed) ==
    IF speed = Missing \/ speed[1] = "" THEN "MissingParameter"
    ELSE IF speed[1] \notin DOMAIN SPEEDS THEN "InvalidParameter"
    ELSE IF duration = Missing THEN "MissingParameter"
    ELSE IF duration[1] < 5 \/ duration[1] > 60 THEN "InvalidParameter"
    ELSE NoError

\* the exception the checks of save_configuration raise, if any
CheckConfiguration(duration, speed) ==
    IF duration = Missing THEN "MissingParameter"
    ELSE IF duration[1] < 5 \/ duration[1] > 60 THEN "InvalidParameter"
    ELSE IF speed = Missing \/ speed[1] = "" THEN "MissingParameter"
    ELSE IF speed[1] \notin DOMAIN SPEEDS THEN "InvalidParameter"
    ELSE NoError

\* float(duration) is the number duration itself
save_configuration(duration, speed) ==
    LET raised == CheckConfiguration(duration, speed)
    IN  /\ IF raised # NoError
           THEN UNCHANGED settings_vars
           ELSE /\ Len(tasks) < MaxTasks
                /\ config_duration' = duration[1]
                /\ config_speed' = speed[1]
                /\ scroll_speed' = SPEEDS[speed[1]]
                /\ tasks' = Append(TaskStop(tasks, display_task),
                                   BackgroundTask(duration[1]))
                /\ display_task' = Len(tasks) + 1
        /\ last' = Log("save_configuration", <<duration, speed>>, "None", raised,
                       0, None, FALSE, FALSE, <<>>, <<>>)
        /\ rr_window' = <<>>
        /\ UNCHANGED <<plugin_vars, driver_vars, clock, selection, bus_pc,
                   wire, reset_pc, pass>>

----------------------------------------------------------------------------
(* Activation: the host restarts the plugin, Messageboard.__init__ and     *)
(* _configure run over the persisted configuration.  The objects, threads  *)
(* and tasks of the previous run are gone with it.                         *)

\* Message() then from_dict for each entry of the configuration; the
\* identifiers the constructors draw are overwritten and not counted
LoadMessages(config) ==
    [r \in DOMAIN config |->
        from_dict(Message(<<>>, None, None, uuid4(uuid_count + r)), config[r])]

\* HT1632C.__init__ run at time now_ts
NewBoard(now_ts) ==
    init_hardware([turned_on |-> TRUE, scrolling_thread |-> None,
                   threads |-> [t \in {} |-> 0],
                   panel_cleared |-> [p \in Panels |-> FALSE],
                   last_hw_reset |-> None, spi |-> "closed", gpio |-> TRUE,
                   lock |-> Unlocked, io |-> <<>>, raised |-> NoError],
                  now_ts)

\* what the stored messages had been through before the restart
LoadedWas ==
    [shown |-> \E r \in Range(messages) : heap[r].displayed_time # 0,
     dynamic |-> \E r \in Range(messages) : heap[r].dynamic]

_configure ==
    /\ messages' = [i \in DOMAIN config_messages |-> i]
    /\ heap' = LoadMessages(config_messages)
    /\ current_message' = None
    /\ UNCHANGED <<config_messages, uuid_count, config_duration, config_speed, clock>>
    /\ SetDriver(NewBoard(time))
    /\ scroll_speed' = SPEEDS[config_speed]
    /\ tasks' = <<BackgroundTask(config_duration)>>
    /\ display_task' = 1
    /\ selection' = "never"
    /\ rr_window' = <<>>
    /\ bus_pc' = Idle
    /\ wire' = Unwritten
    /\ reset_pc' = NoReset
    /\ pass' = NoPass
    /\ last' = Log("configure", <<>>, "None", NoError, 0, None, FALSE, FALSE,
                   <<>>, NewBoard(time).io)
               @@ [was |-> LoadedWas]

----------------------------------------------------------------------------
(* One pixel write to one panel, HT1632C.__write_pixels_to_panel, as the   *)
(* driver issues them one after another.                                   *)

\* whether the 32 columns are all zero
AllZero(pixels) == \A i \in DOMAIN pixels : pixels[i] = 0

\* what a write remembers of the write before it
WriteBefore ==
    IF last.op = "write_pixels_to_panel"
    THEN [panel |-> last.args[1], blank |-> AllZero(last.args[2]),
          sent |-> last.io[1].sent, was |-> last.was]
    ELSE [panel |-> panels, blank |-> FALSE, sent |-> FALSE, was |-> FALSE]

HT1632C_write_pixels_to_panel(panel, pixels) ==
    /\ SetDriver(write_pixels_to_panel(Driver, panel, pixels))
    /\ last' = Log("write_pixels_to_panel", <<panel, pixels>>, "None", NoError,
                   0, None, FALSE, FALSE, <<>>,
                   write_pixels_to_panel(Driver, panel, pixels).io)
               @@ [was |-> panel_cleared[panel], prev |-> WriteBefore]
    /\ UNCHANGED <<plugin_vars, clock, rr_window, selection, settings_vars, bus_pc,
                   wire, reset_pc, pass>>

----------------------------------------------------------------------------
(* The scroll animation thread, ScrollingMessage.run, one step at a time.  *)
(* The scroll position is not tracked: a frame shows, on each panel,       *)
(* either blank columns or some lit ones.                                  *)

Frame(lit) ==
    [i \in 1..get_board_size |->
        IF ((i - 1) \div PanelColumns) \in lit THEN 255 ELSE 0]

\* the thread does not return from lock.acquire(True)
ThreadBlocked(t, d) ==
    [d EXCEPT !.threads[t].pc = "blocked", !.lock.waiting = @ \cup {"scroll"}]

\* the test of the outer while loop: a new pass from a fresh copy of the
\* buffer, up to the write of its first frame, or the end of the thread
OuterTest(t, d) ==
    IF d.threads[t].continu
    THEN [d EXCEPT !.threads[t].pc = "frame", !.threads[t].exhausted = FALSE]
    ELSE [d EXCEPT !.threads = [x \in DOMAIN d.threads \ {t} |-> d.threads[x]]]

\* the watchdog check the thread makes once its inner loop has ended
ResetAfterLoop(t, d) == reset_hardware(d, time)

\* self.reset() and what follows it; an exception is caught and logged
AfterLoop(t, d) ==
    IF d.raised = "Blocked" THEN ThreadBlocked(t, d) ELSE OuterTest(t, d)

\* an inner test that does not look at the stop request
InnerTestDeaf(th) == ~th.exhausted

\* the test of the inner while loop: max_scrolling >= 0 and self.__continu
InnerTest(th) == ~th.exhausted /\ th.continu

\* the lines after self.write_pixels(copy, self.buf_index) returned or
\* raised; late counts the frames written after the stop request
AfterFrame(t, d, exhausted) ==
    IF d.raised = "Blocked" THEN ThreadBlocked(t, d)
    ELSE IF d.raised # NoError THEN OuterTest(t, d)
    ELSE [d EXCEPT !.threads[t].pc = "loop",
                   !.threads[t].exhausted = exhausted,
                   !.threads[t].late = IF d.threads[t].continu THEN @ ELSE @ + 1]

\* what a step of thread t did: error is the exception run() caught,
\* stopped whether the stop had been requested, alive whether the thread
\* goes on
ThreadLog(op, t, d) ==
    Log(op, <<t>>, "None", NoError, 0, None, FALSE, FALSE, <<>>, d.io)
    @@ [error |-> d.raised, stopped |-> ~threads[t].continu,
        exhausted |-> threads[t].exhausted, alive |-> t \in DOMAIN d.threads]

\* the thread has made a step that leaves the driver as d
ThreadStep(op, t, d) ==
    /\ SetDriver(d)
    /\ last' = ThreadLog(op, t, d)
    /\ UNCHANGED <<plugin_vars, clock, rr_window, selection, settings_vars, bus_pc,
                   wire, reset_pc, pass>>

\* the test of the inner while loop and, when it fails, the watchdog check
\* and the test of the outer loop
ScrollingMessage_loop(t) ==
    /\ t \in DOMAIN threads
    /\ threads[t].pc = "loop"
    /\ IF InnerTest(threads[t])
       THEN ThreadStep("scroll_loop", t, [Driver EXCEPT !.threads[t].pc = "frame"])
       ELSE ThreadStep("scroll_end", t, AfterLoop(t, ResetAfterLoop(t, Driver)))

\* one frame: write the visible window; exhausted tells whether this was
\* the last frame of the pass
ScrollingMessage_frame(t, lit, exhausted) ==
    /\ t \in DOMAIN threads
    /\ threads[t].pc = "frame"
    /\ ThreadStep("scroll_frame", t,
                  AfterFrame(t, write_pixels(Driver, Frame(lit), 0), exhausted))

----------------------------------------------------------------------------
(* Deactivation: Messageboard._stop calls board.cleanup() and then stops   *)
(* the periodic task; the task and the scroll animation run in threads of  *)
(* their own and may take steps between the two calls and after them.      *)

_stop_cleanup ==
    /\ gpio
    /\ SetDriver(cleanup(Driver))
    /\ last' = Log("cleanup", <<>>, "None", cleanup(Driver).raised, 0, None,
                   FALSE, FALSE, <<>>, cleanup(Driver).io)
    /\ rr_window' = <<>>
    /\ UNCHANGED <<plugin_vars, clock, selection, settings_vars, bus_pc,
                   wire, reset_pc, pass>>

_stop_task ==
    /\ ~gpio
    /\ tasks[display_task].running
    /\ tasks' = TaskStop(tasks, display_task)
    /\ last' = Log("task_stop", <<>>, "None", NoError, 0, None, FALSE, FALSE,
                   <<>>, <<>>)
    /\ rr_window' = <<>>
    /\ UNCHANGED <<plugin_vars, driver_vars, clock, selection, config_duration,
                   config_speed, scroll_speed, display_task, bus_pc,
                   wire, reset_pc, pass>>

----------------------------------------------------------------------------
(* The bus.  A transient fault makes the next spi.writebytes raise.        *)

BusFault ==
    /\ spi = "open"
    /\ spi' = "faulty"
    /\ UNCHANGED <<plugin_vars, turned_on, scrolling_thread, threads,
                   panel_cleared, last_hw_reset, gpio, lock, clock, last,
                   rr_window, selection, settings_vars, bus_pc,
                   wire, reset_pc, pass>>

(* One frame step by step, as the threads of Callers interleave:           *)
(* __write_command_to_panel from line 602 on and __write_pixels_to_panel   *)
(* from line 645 on.  bus_pc[c] tells the line thread c is about to run.   *)

\* the lines between the acquire and the release
InFrame == {"select", "write", "unselect", "release"}

BusStep(c, pc) ==
    /\ bus_pc' = [bus_pc EXCEPT ![c].pc = pc]
    /\ UNCHANGED <<plugin_vars, turned_on, scrolling_thread, threads,
                   panel_cleared, last_hw_reset, gpio, clock, last,
                   rr_window, selection, settings_vars, reset_pc, pass>>

\* thread c has built the frame and reaches the acquire
frame_enter(c, kind, panel) ==
    /\ bus_pc[c] = NoFrame
    /\ reset_pc[c].pc = "idle"
    /\ bus_pc' = [bus_pc EXCEPT ![c] = [pc |-> "acquire", kind |-> kind,
                                       panel |-> panel]]
    /\ UNCHANGED <<plugin_vars, driver_vars, clock, last, rr_window, selection,
                   settings_vars, wire, reset_pc, pass>>

\* __write_pixels_to_panel up to the acquire (lines 622-642): the frame is
\* built and the cleared flag of the panel is tested and set, before the
\* lock is taken; a blank frame for a panel flagged as cleared is not sent
pixels_enter(c, panel, blank) ==
    /\ bus_pc[c] = NoFrame
    /\ IF blank /\ panel_cleared[panel]
       THEN UNCHANGED <<bus_pc, panel_cleared>>
       ELSE /\ panel_cleared' = [panel_cleared EXCEPT ![panel] = blank]
            /\ bus_pc' = [bus_pc EXCEPT ![c] =
                              [pc |-> "acquire",
                               kind |-> IF blank THEN "blank" ELSE "lit",
                               panel |-> panel]]
    /\ UNCHANGED <<plugin_vars, turned_on, scrolling_thread, threads,
                   last_hw_reset, spi, gpio, lock, clock, last, rr_window,
                   selection, settings_vars, wire, reset_pc, pass>>

\* the panels once the frame f has been transferred: a pixel frame whose
\* content is followed replaces what its panel shows
Shown(w, f) ==
    IF f.kind \in {"lit", "blank"} THEN [w EXCEPT ![f.panel] = f.kind] ELSE w

\* a lock that is granted whether or not it is held
LockGranted(l) == TRUE

\* whether acquire(True) returns
LockFree(l) == ~l.held

\* self.__lock.acquire(True)
lock_acquire(c) ==
    /\ bus_pc[c].pc = "acquire"
    /\ LockFree(lock)
    /\ lock' = [lock EXCEPT !.held = TRUE]
    /\ UNCHANGED <<spi, wire>>
    /\ BusStep(c, "select")

\* self.__select_panel(panel)
select_panel(c) ==
    /\ bus_pc[c].pc = "select"
    /\ UNCHANGED <<lock, spi, wire>>
    /\ BusStep(c, "write")

\* res = self.__spi.writebytes(buf): on a failing or closed bus it raises,
\* and the thread leaves the method, and the reset it may be in, with the
\* panel selected and the lock held
spi_writebytes(c) ==
    /\ bus_pc[c].pc = "write"
    /\ lock' = lock
    /\ IF spi = "open"
       THEN /\ spi' = spi
            /\ wire' = Shown(wire, bus_pc[c])
            /\ BusStep(c, "unselect")
       ELSE /\ spi' = IF spi = "faulty" THEN "open" ELSE spi
            /\ bus_pc' = [bus_pc EXCEPT ![c] = NoFrame]
            /\ reset_pc' = [reset_pc EXCEPT ![c] = NoReset[c]]
            /\ UNCHANGED <<plugin_vars, turned_on, scrolling_thread, threads,
                           panel_cleared, last_hw_reset, gpio, clock, last,
                           rr_window, selection, settings_vars, wire, pass>>

\* self.__select_panel(None)
unselect_panel(c) ==
    /\ bus_pc[c].pc = "unselect"
    /\ UNCHANGED <<lock, spi, wire>>
    /\ BusStep(c, "release")

\* self.__lock.release()
lock_release(c) ==
    /\ bus_pc[c].pc = "release"
    /\ lock' = [lock EXCEPT !.held = FALSE]
    /\ spi' = spi
    /\ bus_pc' = [bus_pc EXCEPT ![c] = NoFrame]
    /\ UNCHANGED <<plugin_vars, turned_on, scrolling_thread, threads,
                   panel_cleared, last_hw_reset, gpio, clock, last,
                   rr_window, selection, settings_vars, wire, reset_pc, pass>>

----------------------------------------------------------------------------
(* The watchdog step by step: __reset_hardware (lines 481-490) and the     *)
(* __init_hardware it calls (lines 454-475), as run by the thread of a     *)
(* caller of display_message and by the animation thread at the end of a   *)
(* pass.  reset_pc[c].sent counts the init commands thread c has issued.   *)

\* the commands of one panel and of the whole initialisation
PanelCommands == 5

InitFrames == panels * PanelCommands

ResetStep(c, to) ==
    /\ reset_pc' = [reset_pc EXCEPT ![c].pc = to]
    /\ UNCHANGED <<plugin_vars, turned_on, scrolling_thread, threads,
                   panel_cleared, last_hw_reset, gpio, lock, clock, last,
                   rr_window, selection, settings_vars, bus_pc, wire, pass>>

\* if time.time()>(self.__last_hw_reset+HT1632C.RESET_HW_DELAY)
reset_enter(c) ==
    /\ reset_pc[c].pc = "idle"
    /\ bus_pc[c] = NoFrame
    /\ time > last_hw_reset + RESET_HW_DELAY * Resolution
    /\ spi' = spi
    /\ ResetStep(c, "close")

\* self.__spi.close()
reset_close(c) ==
    /\ reset_pc[c].pc = "close"
    /\ spi' = "closed"
    /\ ResetStep(c, "open")

\* self.__spi = spidev.SpiDev(0, 0)
reset_open(c) ==
    /\ reset_pc[c].pc = "open"
    /\ spi' = "open"
    /\ ResetStep(c, "init")

\* the next __write_command_to_panel of the initialisation, up to its
\* acquire; the first command of a panel follows the reset of its flag
reset_command(c) ==
    /\ reset_pc[c].pc = "init"
    /\ reset_pc[c].sent < InitFrames
    /\ bus_pc[c] = NoFrame
    /\ reset_pc' = [reset_pc EXCEPT ![c].sent = @ + 1]
    /\ bus_pc' = [bus_pc EXCEPT ![c] =
                     [pc |-> "acquire", kind |-> "command",
                      panel |-> reset_pc[c].sent \div PanelCommands]]
    /\ panel_cleared' =
          [panel_cleared EXCEPT ![reset_pc[c].sent \div PanelCommands] = FALSE]
    /\ UNCHANGED <<plugin_vars, turned_on, scrolling_thread, threads,
                   last_hw_reset, spi, gpio, lock, clock, last, rr_window,
                   selection, settings_vars, wire, pass>>

\* self.__last_hw_reset = time.time()
reset_done(c) ==
    /\ reset_pc[c].pc = "init"
    /\ reset_pc[c].sent = InitFrames
    /\ bus_pc[c] = NoFrame
    /\ last_hw_reset' = time
    /\ reset_pc' = [reset_pc EXCEPT ![c] = NoReset[c]]
    /\ UNCHANGED <<plugin_vars, turned_on, scrolling_thread, threads,
                   panel_cleared, spi, gpio, lock, clock, last, rr_window,
                   selection, settings_vars, bus_pc, wire, pass>>

\* time goes by until the delay of the watchdog has elapsed
time_passes(now) ==
    /\ now > clock
    /\ clock' = now
    /\ UNCHANGED <<plugin_vars, driver_vars, last, rr_window, selection,
                   settings_vars, bus_pc, wire, reset_pc, pass>>

----------------------------------------------------------------------------
(* The driver called on its own: display_message and clear, with the       *)
(* scroll animations they start and stop.                                  *)

\* what a call found: the animation referenced and the threads alive
Found ==
    [scrolling_thread |-> scrolling_thread, alive |-> DOMAIN threads,
     turned_on |-> turned_on]

DisplayCalled(message, shown) ==
    /\ DOMAIN shown.d.threads \subseteq 1..MaxAlive
    /\ SetDriver(shown.d)
    /\ last' = Log("display_message", <<message>>, Bool(shown.ret),
                   shown.d.raised, 0, None, FALSE, FALSE, <<>>, shown.d.io)
               @@ [was |-> Found]
    /\ UNCHANGED <<plugin_vars, clock, rr_window, selection, settings_vars, bus_pc,
                   wire, reset_pc, pass>>

HT1632C_display_message(message) ==
    DisplayCalled(message, display_message(Driver, message, 0, time))

HT1632C_clear ==
    /\ SetDriver(clear(Driver))
    /\ last' = Log("clear", <<>>, "None", clear(Driver).raised, 0, None, FALSE,
                   FALSE, <<>>, clear(Driver).io)
               @@ [was |-> Found]
    /\ UNCHANGED <<plugin_vars, clock, rr_window, selection, settings_vars, bus_pc,
                   wire, reset_pc, pass>>

\* turn_on() and turn_off() of the driver
HT1632C_turn(on) ==
    /\ SetDriver(IF on THEN driver_turn_on(Driver) ELSE driver_turn_off(Driver))
    /\ last' = Log("turn", <<on>>, "None", NoError, 0, None, FALSE, FALSE, <<>>,
                   IF on THEN <<>> ELSE driver_turn_off(Driver).io)
               @@ [was |-> Found]
    /\ UNCHANGED <<plugin_vars, clock, rr_window, selection, settings_vars, bus_pc,
                   wire, reset_pc, pass>>

----------------------------------------------------------------------------
(* One scroll pass with its buffer: the buffer display_message fills for   *)
(* a ScrollingMessage (lines 917-936) and the pass the thread makes over   *)
(* a copy of it (lines 114-135), or the same in scroll_message_once        *)
(* (lines 992-1023).  No stop is requested during the pass.                *)

\* the number of columns a message renders to
FoundLength(found) == get_message_length(found.message, found.patterns)

RenderedLength(message) == FoundLength(search_for_patterns(message, time))

\* direction 0 puts the message at the start of the buffer and the window
\* behind it, any other direction the message at the end and the window
\* at the start
ScrollPosition(buf, message_length, direction) ==
    IF direction = 0 THEN 0 ELSE Len(buf) - message_length

ScrollIndex(message_length, direction) ==
    IF direction = 0 THEN message_length ELSE 0

\* the buffer of board size + message length columns, filled
ScrollBuffer(found, message_length, direction) ==
    Overlay(get_buffer(get_board_size + message_length),
            FillBuffer(<<>>, found.message, found.patterns, 1),
            ScrollPosition(get_buffer(get_board_size + message_length),
                           message_length, direction))

\* pixels[index: index + board size], the part write_pixels sends
Window(pixels, index) == SubSeq(pixels, index + 1, index + get_board_size)

\* a loop test that stops one step early
PassGoesOnAboveZero(p) == p.max_scrolling > 0

\* while max_scrolling>=0
PassGoesOn(p) == p.max_scrolling >= 0

\* the pass as it stands before its first frame; frames counts the frames
\* written, window is the last of them, columns the rendered message
NewPass(op, found, message_length, direction) ==
    [pc |-> "loop", op |-> op, direction |-> direction,
     message_length |-> message_length,
     buf |-> ScrollBuffer(found, message_length, direction),
     index |-> ScrollIndex(message_length, direction),
     max_scrolling |-> get_board_size + message_length,
     frames |-> 0, window |-> <<>>,
     columns |-> FillBuffer(<<>>, found.message, found.patterns, 1)]

PassStarted(op, message, direction, found) ==
    /\ pass' = NewPass(op, found, get_message_length(found.message, found.patterns),
                       direction)
    /\ last' = Log(op, <<message, direction>>, "None", NoError, 0, None, FALSE,
                   FALSE, <<>>, <<>>)
    /\ UNCHANGED <<plugin_vars, driver_vars, clock, rr_window, selection,
                   settings_vars, bus_pc, wire, reset_pc>>

\* op is "display_message", which scrolls a message wider than the board in
\* the direction set by set_direction, or "scroll_message_once", which
\* scrolls any message in the direction it is given
pass_start(op, message, direction) ==
    /\ pass.pc \in {"idle", "done"}
    /\ turned_on
    /\ op = "display_message" =>
          RenderedLength(message) > get_board_size
    /\ PassStarted(op, message, direction, search_for_patterns(message, time))

\* the pass after a frame: the copy is shifted by one column, to the right
\* for direction 0 and to the left otherwise
PassAfterFrame(p, d) ==
    IF d.raised # NoError THEN [p EXCEPT !.pc = "done"]
    ELSE [p EXCEPT !.window = Window(p.buf, p.index),
                   !.buf = shift(@, IF p.direction = 0 THEN 1 ELSE -1),
                   !.max_scrolling = @ - 1,
                   !.frames = @ + 1]

PassWrote(d) ==
    /\ SetDriver(d)
    /\ pass' = PassAfterFrame(pass, d)
    /\ last' = Log("pass_frame", <<pass.index>>, "None", d.raised, 0, None,
                   FALSE, FALSE, <<>>, d.io)
    /\ UNCHANGED <<plugin_vars, clock, rr_window, selection, settings_vars,
                   bus_pc, wire, reset_pc>>

\* one turn of the loop: write_pixels(copy, buf_index), shift, decrement
pass_frame ==
    /\ pass.pc = "loop"
    /\ PassGoesOn(pass)
    /\ PassWrote(write_pixels(Driver, pass.buf, pass.index))

\* the loop test fails: the pass is over
pass_end ==
    /\ pass.pc = "loop"
    /\ ~PassGoesOn(pass)
    /\ pass' = [pass EXCEPT !.pc = "done"]
    /\ last' = Log("pass_end", <<>>, "None", NoError, 0, None, FALSE, FALSE,
                   <<>>, <<>>)
    /\ UNCHANGED <<plugin_vars, driver_vars, clock, rr_window, selection,
                   settings_vars, bus_pc, wire, reset_pc>>

\* display_message(message, position) of a message that fits the board
HT1632C_display_message_at(message, position) ==
    /\ RenderedLength(message) <= get_board_size
    /\ DisplayCalled(message, display_message(Driver, message, position, time))

RandomWrote(pixels, d) ==
    /\ SetDriver(d)
    /\ last' = Log("random", <<pixels>>, "None", d.raised, 0, None, FALSE,
                   FALSE, <<>>, d.io)
    /\ UNCHANGED <<plugin_vars, clock, rr_window, selection, settings_vars,
                   bus_pc, wire, reset_pc, pass>>

\* one frame of random(): np.random.randint(0, 255, board size) is written
HT1632C_random(pixels) ==
    /\ Len(pixels) = get_board_size
    /\ RandomWrote(pixels, write_pixels(Driver, pixels, 0))

----------------------------------------------------------------------------
(* Inputs *)

TextShort == <<"h", "i">>
TextTime == <<":", "t", "i", "m", "e">>
TextLong == [i \in 1..26 |-> "x"]

AddTexts == {TextShort, TextLong}

\* display windows <<start, end>>: always displayable, expiring, not yet
\* started, and one that ends before it starts
Windows == {<<0, FarEnd>>, <<0, StartClock + 1>>,
            <<StartClock + 2, FarEnd>>, <<StartClock + 2, StartClock + 1>>}

\* every text is added over the first window, the windows with the first text
AddInputs == {x \in AddTexts \X Windows : x[1] = TextShort \/ x[2] = <<0, FarEnd>>}

ReplaceTexts == {TextShort, TextTime}

\* the panels a scrolled frame lights: none or all
Frames == {{}, Panels}

\* the identifiers passed by callers: the one of the clock message and the
\* first one the plugin generates
DeleteUuids == {"currenttime", uuid4(1)}

ReplaceUuids == {"currenttime"}

\* the arguments of save_configuration: absent, just outside and inside
\* the accepted range; absent, empty, known and unknown speeds
Durations == {Missing, <<4>>, <<5>>, <<30>>, <<60>>, <<61>>}

Speeds == {Missing, <<"">>, <<"slow">>, <<"normal">>, <<"fast">>, <<"turbo">>}

\* the columns of one panel: blank, all lit, and one bit lit in the first
\* or in the last column
PanelPixels ==
    {ALL_LEDS_OFF,
     [i \in 1..PanelColumns |-> 255],
     [i \in 1..PanelColumns |-> IF i = 1 THEN 4 ELSE 0],
     [i \in 1..PanelColumns |-> IF i = 1 THEN 128 ELSE 0],
     [i \in 1..PanelColumns |-> IF i = PanelColumns THEN 1 ELSE 0]}

\* the values of clock notifications: two a minute apart and a later one
EventValues ==
    {[hour |-> 9, minute |-> 5, day |-> 1, month |-> 2, year |-> 2020],
     [hour |-> 9, minute |-> 6, day |-> 1, month |-> 2, year |-> 2020],
     [hour |-> 23, minute |-> 59, day |-> 31, month |-> 12, year |-> 2020]}

\* texts that render to exactly the board size and to one column more:
\* a logo of 8 or of 9 columns and 24 letters of 5
Text128 == <<":", ")">> \o [i \in 1..24 |-> "x"]

Text129 == <<":", "s", "h", "i", "t">> \o [i \in 1..24 |-> "x"]

DriverTexts == {TextShort, Text128, Text129, TextLong}

\* the thread of a caller of clear or display_message and the animation
\* thread, and the panels they write to
FlagCallers == {"task", "scroll"}

FlagPanels == {0, 1}

\* the callers of a scroll pass
PassOps == {"display_message", "scroll_message_once"}

\* SCROLL_LEFT_TO_RIGHT and SCROLL_RIGHT_TO_LEFT
Directions == {0, 1}

\* the texts scrolled: narrower than the board (scroll_message_once only)
\* and one column wider
PassTexts == {TextShort, Text129}

\* the texts displayed without scrolling, and where
StaticTexts == {TextShort, Text128}

Positions == {-3, 0, 5, 200}

\* the first time at which the watchdog finds its delay elapsed
Late == StartClock + RESET_HW_DELAY * Resolution + 1

\* the times of the display cycles when the watchdog is looked at, and a
\* window that lasts beyond them
WatchClocks == {StartClock + 1, Late, Late + 1}

LateEnd == Late + FarEnd

FrameKinds == {"command", "pixels"}

----------------------------------------------------------------------------
(* Specification *)

\* the plugin constructed and configured over the default configuration
Init ==
    /\ messages = <<>>
    /\ heap = [r \in {} |-> 0]
    /\ current_message = None
    /\ config_messages = <<>>
    /\ uuid_count = 0
    /\ turned_on = TRUE
    /\ scrolling_thread = None
    /\ threads = [t \in {} |-> 0]
    /\ panel_cleared = [p \in Panels |-> FALSE]
    /\ last_hw_reset = StartClock
    /\ clock = StartClock
    /\ last = Log("init", <<>>, "None", NoError, 0, None, FALSE, FALSE, <<>>, <<>>)
    /\ rr_window = <<>>
    /\ selection = "never"
    /\ config_duration = DEFAULT_CONFIG.duration
    /\ config_speed = DEFAULT_CONFIG.speed
    /\ scroll_speed = SPEEDS[DEFAULT_CONFIG.speed]
    /\ tasks = <<BackgroundTask(DEFAULT_CONFIG.duration)>>
    /\ display_task = 1
    /\ spi = "open"
    /\ gpio = TRUE
    /\ lock = Unlocked
    /\ bus_pc = Idle
    /\ wire = Unwritten
    /\ reset_pc = NoReset
    /\ pass = NoPass

Next ==
    \/ \E now \in (StartClock + 1)..MaxClock : __display_message(now)
    \/ \E x \in AddInputs : add_message(x[1], x[2][1], x[2][2])
    \/ \E uuid \in DeleteUuids : delete_message(uuid)
    \/ \E message \in ReplaceTexts, uuid \in ReplaceUuids :
           add_or_replace_message(message, uuid)
    \/ \E callable \in BOOLEAN : turn_on(callable)
    \/ \E callable \in BOOLEAN : turn_off(callable)
    \/ \E t \in 1..MaxThreads : ScrollingMessage_loop(t)
    \/ \E t \in 1..MaxThreads, lit \in Frames, exhausted \in BOOLEAN :
           ScrollingMessage_frame(t, lit, exhausted)

Spec == Init /\ [][Next]_vars

\* the plugin under calls of save_configuration alone
NextConfig ==
    \E duration \in Durations, speed \in Speeds : save_configuration(duration, speed)

SpecConfig == Init /\ [][NextConfig]_vars

\* the plugin under the clock notifications of the host and the display
\* cycles; the clock text is 97 columns long and fits the board, so that
\* no scroll animation is started
NextClock ==
    \/ \E event_values \in EventValues : parameters_time_now(event_values)
    \/ \E now \in (StartClock + 1)..MaxClock : __display_message(now)

SpecClock == Init /\ [][NextClock]_vars

\* the plugin with restarts of the host
NextRestart ==
    \/ Next
    \/ _configure

SpecRestart == Init /\ [][NextRestart]_vars

\* the driver under pixel writes to its panels, one after another
NextPanel ==
    \E panel \in Panels, pixels \in PanelPixels :
        HT1632C_write_pixels_to_panel(panel, pixels)

SpecPanel == Init /\ [][NextPanel]_vars

\* the driver under initialisations and pixel writes: the command frames and
\* the pixel frames it builds
NextFrames ==
    \/ _configure
    \/ NextPanel

SpecFrames == Init /\ [][NextFrames]_vars

\* the driver under calls of display_message, clear, turn_on and turn_off,
\* with up to MaxAlive scroll animation threads that have not terminated
ThreadNext(t) ==
    \/ ScrollingMessage_loop(t)
    \/ \E lit \in Frames, exhausted \in BOOLEAN :
           ScrollingMessage_frame(t, lit, exhausted)

NextScroll ==
    \/ \E message \in DriverTexts : HT1632C_display_message(message)
    \/ HT1632C_clear
    \/ \E on \in BOOLEAN : HT1632C_turn(on)
    \/ \E t \in 1..MaxAlive : ThreadNext(t)

SpecScroll == Init /\ [][NextScroll]_vars

\* a thread that has not terminated and is not waiting for the lock has a
\* step to take, and that step changes its position
ThreadCanStep(t) == t \in DOMAIN threads /\ threads[t].pc \in {"loop", "frame"}

\* the same with every such thread scheduled again and again: weak fairness
\* of ThreadNext(t), its enabling condition written as ThreadCanStep(t)
SpecScrollFair ==
    /\ SpecScroll
    /\ \A t \in 1..MaxAlive :
          []<>(~ThreadCanStep(t)) \/ []<><<ThreadNext(t)>>_vars

\* the plugin over a time long enough for the watchdog delay to elapse
NextWatch ==
    \/ \E now \in WatchClocks : __display_message(now)
    \/ \E message \in AddTexts : add_message(message, 0, LateEnd)
    \/ \E callable \in BOOLEAN : turn_on(callable)
    \/ \E callable \in BOOLEAN : turn_off(callable)
    \/ \E t \in 1..MaxThreads : ThreadNext(t)

SpecWatch == Init /\ [][NextWatch]_vars

\* the plugin up to and after its deactivation
NextStop ==
    \/ \E now \in (StartClock + 1)..MaxClock : __display_message(now)
    \/ \E x \in AddInputs : add_message(x[1], x[2][1], x[2][2])
    \/ \E t \in 1..MaxThreads : ThreadNext(t)
    \/ _stop_cleanup
    \/ _stop_task

SpecStop == Init /\ [][NextStop]_vars

\* the plugin on a bus that has transient faults
NextFault ==
    \/ BusFault
    \/ \E now \in (StartClock + 1)..MaxClock : __display_message(now)
    \/ \E x \in AddInputs : add_message(x[1], x[2][1], x[2][2])
    \/ \E t \in 1..MaxThreads : ThreadNext(t)

SpecFault == Init /\ [][NextFault]_vars

\* the threads of the driver, each sending frames one step at a time
NextBus ==
    \/ BusFault
    \/ \E c \in Callers, kind \in FrameKinds, panel \in Panels :
           frame_enter(c, kind, panel)
    \/ \E c \in Callers : lock_acquire(c)
    \/ \E c \in Callers : select_panel(c)
    \/ \E c \in Callers : spi_writebytes(c)
    \/ \E c \in Callers : unselect_panel(c)
    \/ \E c \in Callers : lock_release(c)

SpecBus == Init /\ [][NextBus]_vars

\* two threads writing pixel frames to the same panels, each frame step by
\* step from the test of the cleared flag on
NextFlag ==
    \/ \E c \in FlagCallers, panel \in FlagPanels, blank \in BOOLEAN :
           pixels_enter(c, panel, blank)
    \/ \E c \in FlagCallers : lock_acquire(c)
    \/ \E c \in FlagCallers : select_panel(c)
    \/ \E c \in FlagCallers : spi_writebytes(c)
    \/ \E c \in FlagCallers : unselect_panel(c)
    \/ \E c \in FlagCallers : lock_release(c)

SpecFlag == Init /\ [][NextFlag]_vars

\* the animation thread and the thread of a caller of display_message,
\* each sending pixel frames and running the watchdog step by step
NextReset ==
    \/ time_passes(Late)
    \/ \E c \in FlagCallers : frame_enter(c, "pixels", 0)
    \/ \E c \in FlagCallers : reset_enter(c)
    \/ \E c \in FlagCallers : reset_close(c)
    \/ \E c \in FlagCallers : reset_open(c)
    \/ \E c \in FlagCallers : reset_command(c)
    \/ \E c \in FlagCallers : reset_done(c)
    \/ \E c \in FlagCallers : lock_acquire(c)
    \/ \E c \in FlagCallers : select_panel(c)
    \/ \E c \in FlagCallers : spi_writebytes(c)
    \/ \E c \in FlagCallers : unselect_panel(c)
    \/ \E c \in FlagCallers : lock_release(c)

SpecReset == Init /\ [][NextReset]_vars

\* the driver writing whole boards: scroll passes in both directions,
\* messages that fit the board at any position, random frames; a pass is
\* followed from its first frame to its last with no other call in between
NextPass ==
    \/ \E op \in PassOps, message \in PassTexts, direction \in Directions :
           pass_start(op, message, direction)
    \/ pass_frame
    \/ pass_end
    \/ /\ pass.pc # "loop"
       /\ \E message \in StaticTexts, position \in Positions :
              HT1632C_display_message_at(message, position)
    \/ /\ pass.pc # "loop"
       /\ \E lit \in Frames : HT1632C_random(Frame(lit))

SpecPass == Init /\ [][NextPass]_vars

----------------------------------------------------------------------------
(* Properties.  last describes the operation that led to the state, so a   *)
(* state predicate on last speaks of the state right after that operation  *)
(* and a step formula on last' of the operation the step is.               *)

\* the fields of a message that the configuration and the memory share
Entry(m) ==
    [uuid |-> m.uuid, message |-> m.message, start |-> m.start, end |-> m.end]

MemoryEntries == [i \in DOMAIN messages |-> Entry(heap[messages[i]])]

ConfigEntries == [i \in DOMAIN config_messages |-> Entry(config_messages[i])]

MemoryUuids == {heap[messages[i]].uuid : i \in DOMAIN messages}

ConfigUuids == {config_messages[i].uuid : i \in DOMAIN config_messages}

\* the positions in memory of the messages with start <= now <= end
DisplayableAt(now) ==
    {i \in DOMAIN messages :
        heap[messages[i]].start <= now /\ now <= heap[messages[i]].end}

\* C1: in a cycle with at least one displayable message, the head is a
\* displayable message of minimum displayed_time and, among those tied at
\* the minimum, the first in memory order
C1_HeadIsLeastRecentlyDisplayed ==
    [][(last'.op = "display" /\ DisplayableAt(last'.now) # {}) =>
          \E i \in DisplayableAt(last'.now) :
              /\ last'.head = messages[i]
              /\ \A j \in DisplayableAt(last'.now) :
                    \/ heap[messages[i]].displayed_time
                           < heap[messages[j]].displayed_time
                    \/ /\ heap[messages[i]].displayed_time
                              = heap[messages[j]].displayed_time
                       /\ i <= j]_vars

\* a cycle picked the second message in memory over the first, displayable too
C1_Witness ==
    /\ last.op = "display"
    /\ last.removed = 0
    /\ Len(messages) = 2
    /\ last.head = messages[2]
    /\ Displayable(heap[messages[1]], last.now)

\* C2: after a cycle run at time now, no message with end < now is left in
\* the configuration or in memory
C2_NoExpiredLeft ==
    last.op = "display" =>
        /\ \A i \in DOMAIN messages : ~(heap[messages[i]].end < last.now)
        /\ \A i \in DOMAIN config_messages : ~(config_messages[i].end < last.now)

\* a cycle dropped two expired messages at once
C2_Witness ==
    /\ last.op = "display"
    /\ last.removed = 2
    /\ messages = <<>>
    /\ config_messages = <<>>

\* C3: in a cycle with a head m, the render is invoked iff m is not the
\* current reference or m is dynamic; when m is current and not dynamic the
\* driver is not called, no event is published, and m.displayed_time,
\* m.dynamic and the current reference stay as they were
C3_RenderOnlyWhenNeeded ==
    [][(last'.op = "display" /\ last'.head # None) =>
          /\ last'.rendered <=>
                 (last'.head # current_message \/ heap[last'.head].dynamic)
          /\ (last'.head = current_message /\ ~heap[last'.head].dynamic) =>
                 /\ last'.io = <<>>
                 /\ last'.events = <<>>
                 /\ heap'[last'.head].displayed_time
                        = heap[last'.head].displayed_time
                 /\ heap'[last'.head].dynamic = heap[last'.head].dynamic
                 /\ current_message' = current_message
                 /\ UNCHANGED driver_vars]_vars

\* a cycle found the current message, not dynamic, at the head and left it
C3_Witness ==
    /\ last.op = "display"
    /\ last.head # None
    /\ ~last.rendered
    /\ current_message = last.head
    /\ turned_on

\* C4: after a cycle that rendered its head m at time now, m.dynamic is the
\* flag the driver returned, m.displayed_time is now, m is the current
\* reference, and one event was published, carrying get_current_message()
\* as it reads once those updates are made
C4_RenderUpdates ==
    (last.op = "display" /\ last.rendered) =>
        /\ heap[last.head].dynamic = last.evolutive
        /\ heap[last.head].displayed_time = last.now
        /\ current_message = last.head
        /\ Len(last.events) = 1
        /\ last.events[1] = get_current_message(current_message, heap, Driver)

\* a cycle rendered a time message on a board that is on
C4_Witness ==
    /\ last.op = "display"
    /\ last.rendered
    /\ last.evolutive
    /\ last.events[1].message # <<>>
    /\ last.events[1].message[1].displayed_time = last.now

C6_RoundRobin ==
    (Len(messages) >= 1 /\ Len(rr_window) = Len(messages)) =>
        \A i \in DOMAIN messages :
            \E j \in DOMAIN rr_window : rr_window[j] = messages[i]

\* two cycles in a row over two messages showed one and then the other
C6_Witness ==
    /\ Len(messages) = 2
    /\ Len(rr_window) = 2
    /\ rr_window[1] # rr_window[2]
    /\ last.op = "display"

\* C7: the configuration and the memory hold the same identifiers, with the
\* same text, start and end for each
C7_StoresMirror ==
    /\ Len(config_messages) = Len(messages)
    /\ ConfigUuids = MemoryUuids
    /\ Range(ConfigEntries) = Range(MemoryEntries)

\* a stored message was replaced while another one was stored
C7_Witness ==
    /\ last.op = "add_or_replace_message"
    /\ last.ret = "True"
    /\ Len(messages) = 2
    /\ "currenttime" \in MemoryUuids

\* C8: add_message accepts any start and end and raises nothing; the
\* identifier it returns was not stored before; afterwards one new message
\* with that identifier, the text and the window, displayed_time 0, is in
\* the configuration and in memory, the other messages being as they were
C8_AddMessage ==
    [][last'.op = "add_message" =>
          /\ last'.raised = NoError
          /\ last'.ret \notin ConfigUuids \cup MemoryUuids
          /\ Len(messages') = Len(messages) + 1
          /\ SubSeq(messages', 1, Len(messages)) = messages
          /\ messages'[Len(messages')] \notin Range(messages)
          /\ \A i \in DOMAIN messages : heap'[messages[i]] = heap[messages[i]]
          /\ heap'[messages'[Len(messages')]] =
                 [message |-> last'.args[1], start |-> last'.args[2],
                  end |-> last'.args[3], displayed_time |-> 0,
                  dynamic |-> FALSE, uuid |-> last'.ret]
          /\ config_messages' = Append(config_messages,
                 [uuid |-> last'.ret, message |-> last'.args[1],
                  start |-> last'.args[2], end |-> last'.args[3],
                  displayed_time |-> 0])]_vars

\* a message whose window ends before it starts was added beside another
C8_Witness ==
    /\ last.op = "add_message"
    /\ last.args[2] > last.args[3]
    /\ Len(messages) = 2
    /\ heap[messages[2]].uuid = last.ret
    /\ heap[messages[2]].start > heap[messages[2]].end

\* C9: delete_message(id) raises nothing and returns true iff id was stored;
\* afterwards no message has that identifier in the configuration or in
\* memory; for an identifier that is not stored, in every state of the
\* stores, the empty one included, it returns false and changes neither
C9_DeleteAsStated ==
    [][last'.op = "delete_message" =>
          /\ last'.raised = NoError
          /\ last'.ret = "True" <=> last'.args[1] \in ConfigUuids \cup MemoryUuids
          /\ \A i \in DOMAIN messages' : heap'[messages'[i]].uuid # last'.args[1]
          /\ \A i \in DOMAIN config_messages' :
                config_messages'[i].uuid # last'.args[1]
          /\ last'.args[1] \notin ConfigUuids \cup MemoryUuids =>
                /\ last'.ret = "False"
                /\ UNCHANGED <<messages, config_messages>>]_vars

\* delete_message was called on the empty store and raised
C9_Witness ==
    /\ last.op = "delete_message"
    /\ last.raised = "UnboundLocalError"
    /\ messages = <<>>
    /\ config_messages = <<>>

\* the outcome of a step that is add_or_replace_message(text, id), the
\* window of the message starting at start
ReplaceOutcome(start) ==
    last'.op = "add_or_replace_message" =>
        /\ Cardinality({i \in DOMAIN messages' :
               heap'[messages'[i]].uuid = last'.args[2]}) = 1
        /\ Cardinality({i \in DOMAIN config_messages' :
               config_messages'[i].uuid = last'.args[2]}) = 1
        /\ \A i \in DOMAIN messages' :
               heap'[messages'[i]].uuid = last'.args[2] =>
                   /\ heap'[messages'[i]].message = last'.args[1]
                   /\ heap'[messages'[i]].start = start
                   /\ heap'[messages'[i]].end = start + WEEK * Resolution
        /\ \A i \in DOMAIN config_messages' :
               config_messages'[i].uuid = last'.args[2] =>
                   /\ config_messages'[i].message = last'.args[1]
                   /\ config_messages'[i].start = start
                   /\ config_messages'[i].end = start + WEEK * Resolution
        /\ last'.ret = "True" <=> last'.args[2] \in ConfigUuids \cup MemoryUuids
        /\ last'.ret = "True" =>
               /\ Len(messages') = Len(messages)
               /\ Len(config_messages') = Len(config_messages)
        /\ last'.ret # "True" =>
               /\ Len(messages') = Len(messages) + 1
               /\ Len(config_messages') = Len(config_messages) + 1

\* C10, the window counted from the whole second: after
\* add_or_replace_message(text, id) called at time now, one stored message
\* has that identifier, with the text and the window from the whole second
\* of now to 604800 seconds later, in the configuration and in memory; it
\* returns true iff the identifier was stored, the count of messages then
\* unchanged, and otherwise one message with the identifier of the caller
\* was added
C10_ReplaceWindowFromWholeSecond == [][ReplaceOutcome(int(last'.now))]_vars

\* C10, the window counted from now itself: the same outcome with the
\* window [now, now+604800] starting at the time of the call
C10_ReplaceWindowFromNow == [][ReplaceOutcome(last'.now)]_vars

\* a stored message was replaced at a time that is not a whole second
C10_Witness ==
    /\ last.op = "add_or_replace_message"
    /\ last.ret = "True"
    /\ last.now # int(last.now)
    /\ \E i \in DOMAIN messages :
          /\ heap[messages[i]].uuid = last.args[2]
          /\ heap[messages[i]].start = int(last.now)

\* C11, the replaced message being the head: after add_or_replace_message
\* on a stored id, the next display cycle renders its head and publishes
\* one event; the head is the replaced message unless another displayable
\* message was displayed no later than it
C11_ReplacedHeadIsRedrawn ==
    [][(last.op = "add_or_replace_message" /\ last.ret = "True"
            /\ last'.op = "display") =>
          /\ last'.head # None
          /\ last'.rendered
          /\ Len(last'.events) = 1
          /\ heap'[last'.head].uuid # last.args[2] =>
                \E r \in Range(messages) :
                    /\ heap[r].uuid = last.args[2]
                    /\ heap[last'.head].displayed_time <= heap[r].displayed_time]_vars

\* C11: after add_or_replace_message on a stored id, the next display cycle
\* redraws the replaced message: the render is invoked for it and an event
\* is published
C11_ReplacedIsRedrawnNext ==
    [][(last.op = "add_or_replace_message" /\ last.ret = "True"
            /\ last'.op = "display") =>
          /\ last'.head # None
          /\ heap'[last'.head].uuid = last.args[2]
          /\ last'.rendered
          /\ Len(last'.events) = 1]_vars

\* a message that was current and not dynamic was replaced by the same text
\* and the cycle that followed drew it again
C11_Witness ==
    /\ last.op = "display"
    /\ last.prev.op = "add_or_replace_message"
    /\ last.prev.was.current
    /\ last.prev.was.same_text
    /\ ~last.prev.was.dynamic
    /\ last.rendered
    /\ last.head # None
    /\ heap[last.head].uuid = last.prev.uuid
    /\ Len(last.events) = 1
    /\ last.events[1].message # <<>>

\* the status get_current_message() returns in the state
Status == get_current_message(current_message, heap, Driver)

\* C12, the selection that stands: nomessage is true iff no display cycle
\* has selected a message since activation or since the current reference
\* was last cleared, by a cycle with nothing to display, by
\* add_or_replace_message on a stored id or by turn_on
C12_NoMessageIffNoneStanding == Status.nomessage <=> selection # "selected"

\* C12: nomessage is true iff no message has ever been selected by a
\* display cycle since activation
C12_NoMessageIffNeverSelected == Status.nomessage <=> selection = "never"

\* a message was selected, then turn_on cleared the reference: the status
\* says nomessage again while the message is still stored
C12_Witness ==
    /\ selection = "cleared"
    /\ last.op = "turn_on"
    /\ last.was # None
    /\ last.was \in Range(messages)
    /\ Status.nomessage

\* C13: off is true iff the power flag of the driver is off, and when off
\* is true the message field is absent
C13_OffIffPowerOff ==
    /\ Status.off <=> ~turned_on
    /\ Status.off => Status.message = <<>>

\* the board was turned off with no message selected: off is not reported
C13_Witness ==
    /\ last.op = "turn_off"
    /\ ~turned_on
    /\ current_message = None
    /\ ~Status.off
    /\ Status.nomessage

\* every panel is flagged cleared after a blank frame was asked for it in
\* the log io, and no scroll animation is left to run
Blanked(io) ==
    /\ scrolling_thread' = None
    /\ \A t \in DOMAIN threads' : ~threads'[t].continu
    /\ \A p \in Panels :
          /\ panel_cleared'[p]
          /\ \E i \in DOMAIN io :
                io[i].kind = "pixels" /\ io[i].panel = p /\ io[i].zero

\* C14: turn_off() switches the power flag off, blanks the board, clears
\* the current reference and then publishes one event carrying the status
\* that results
C14_TurnOffAsStated ==
    [][last'.op = "turn_off" =>
          /\ ~turned_on'
          /\ Blanked(last'.io)
          /\ current_message' = None
          /\ Len(last'.events) = 1
          /\ last'.events[1] = get_current_message(current_message', heap',
                                   [Driver EXCEPT !.turned_on = turned_on'])]_vars

\* turn_off() ran while a message was current and the reference still
\* names that message
C14_Witness ==
    /\ last.op = "turn_off"
    /\ ~turned_on
    /\ current_message # None
    /\ current_message \in Range(messages)
    /\ last.was = current_message

\* C15: after turn_on() the power flag is on, the current reference is
\* cleared and one event is published; the next display cycle that has a
\* displayable message renders its head
C15_TurnOnAsStated ==
    [][/\ last'.op = "turn_on" =>
             /\ turned_on'
             /\ current_message' = None
             /\ Len(last'.events) = 1
       /\ (last.op = "turn_on" /\ last'.op = "display"
               /\ DisplayableAt(last'.now) # {}) =>
             /\ last'.head # None
             /\ last'.rendered]_vars

\* turn_on() set the flag and cleared the reference of a stored message,
\* and the call of the event object raised: no event was published
C15_Witness ==
    /\ last.op = "turn_on"
    /\ last.raised = "NotCallable"
    /\ last.events = <<>>
    /\ turned_on
    /\ current_message = None
    /\ last.was \in Range(messages)

\* C16: save_configuration(duration, speed) raises MissingParameter for an
\* absent duration, else InvalidParameter for a duration below 5 or above
\* 60, else MissingParameter for an absent or empty speed, else
\* InvalidParameter for a speed that is not slow, normal or fast; when it
\* raises, the persisted duration and speed, the scroll speed of the driver
\* and the periodic task are unchanged
C16_SaveConfigurationChecks ==
    [][last'.op = "save_configuration" =>
          LET duration == last'.args[1]
              speed == last'.args[2]
              duration_ok == duration # Missing /\ duration[1] >= 5 /\ duration[1] <= 60
              speed_given == speed # Missing /\ speed[1] # ""
          IN  /\ duration = Missing => last'.raised = "MissingParameter"
              /\ (duration # Missing /\ ~duration_ok) =>
                     last'.raised = "InvalidParameter"
              /\ (duration_ok /\ ~speed_given) => last'.raised = "MissingParameter"
              /\ (duration_ok /\ speed_given
                     /\ speed[1] \notin {"slow", "normal", "fast"}) =>
                     last'.raised = "InvalidParameter"
              /\ (duration_ok /\ speed_given
                     /\ speed[1] \in {"slow", "normal", "fast"}) =>
                     last'.raised = NoError
              /\ last'.raised # NoError =>
                     UNCHANGED <<config_duration, config_speed, scroll_speed,
                                 display_task, tasks>>]_vars

\* after a configuration was saved, a call with a duration out of range and
\* no speed was refused for its duration
C16_Witness ==
    /\ last.op = "save_configuration"
    /\ last.args = <<<<4>>, Missing>>
    /\ last.raised = "InvalidParameter"
    /\ config_duration = 30
    /\ config_speed = "fast"
    /\ Len(tasks) = 2

\* C17: after activation and any successful calls of save_configuration,
\* one periodic task is running, the one the plugin holds, every earlier
\* one is stopped, its period is the persisted duration and the delay of
\* the driver is the one mapped from the persisted speed
C17_OneTaskAtSavedPeriod ==
    /\ display_task \in DOMAIN tasks
    /\ \A t \in DOMAIN tasks : tasks[t].running <=> t = display_task
    /\ tasks[display_task].interval = config_duration
    /\ scroll_speed = SPEEDS[config_speed]

\* two configurations were saved one after the other
C17_Witness ==
    /\ last.op = "save_configuration"
    /\ last.raised = NoError
    /\ Len(tasks) = 3
    /\ tasks[2].interval # tasks[3].interval
    /\ config_duration = 5
    /\ config_speed = "slow"

\* how many entries of the sequence of messages s carry the identifier uuid
CountUuid(s, uuid) == Cardinality({i \in DOMAIN s : s[i].uuid = uuid})

\* C18: under clock notifications interleaved with display cycles the store
\* never holds more than one message, the one named "currenttime": a
\* notification overwrites the text of the stored message and adds none
C18_OneClockMessage ==
    [][/\ Len(messages') <= 1
       /\ Len(config_messages') <= 1
       /\ CountUuid(MemoryEntries', "currenttime") = Len(messages')
       /\ CountUuid(ConfigEntries', "currenttime") = Len(config_messages')
       /\ (last'.op = "add_or_replace_message" /\ messages # <<>>) =>
             /\ last'.ret = "True"
             /\ messages' = messages
             /\ heap'[messages'[1]].message = last'.args[1]
             /\ config_messages'[1].message = last'.args[1]]_vars

\* a second notification changed the text of the clock message
C18_Witness ==
    /\ last.op = "add_or_replace_message"
    /\ last.ret = "True"
    /\ ~last.was.same_text
    /\ Len(messages) = 1
    /\ heap[messages[1]].uuid = "currenttime"
    /\ heap[messages[1]].message = last.args[1]
    /\ heap[messages[1]].displayed_time # 0

\* C19: the messages loaded at activation from the serialized ones have
\* the uuid, text, start and end of the messages stored before, in the same
\* order, and displayed_time 0 and dynamic false whatever they were
C19_ReloadKeepsFourFields ==
    [][last'.op = "configure" =>
          /\ MemoryEntries' = MemoryEntries
          /\ MemoryEntries' = ConfigEntries
          /\ \A i \in DOMAIN messages' :
                /\ heap'[messages'[i]].displayed_time = 0
                /\ heap'[messages'[i]].dynamic = FALSE]_vars

\* two messages were reloaded, one of which had been displayed and one of
\* which was dynamic
C19_Witness ==
    /\ last.op = "configure"
    /\ last.was.shown
    /\ last.was.dynamic
    /\ Len(messages) = 2
    /\ \A i \in DOMAIN messages : heap[messages[i]].displayed_time = 0

C21_OneFrameAtATime ==
    /\ Cardinality({c \in Callers : bus_pc[c].pc \in InFrame}) <= 1
    /\ (\E c \in Callers : bus_pc[c].pc \in InFrame) => lock.held

\* the scroll animation is transferring a pixel frame while the thread of
\* the periodic task waits to send a command to another panel
C21_Witness ==
    /\ bus_pc["scroll"].pc = "write"
    /\ bus_pc["scroll"].kind = "pixels"
    /\ bus_pc["task"].pc = "acquire"
    /\ bus_pc["task"].kind = "command"
    /\ bus_pc["task"].panel # bus_pc["scroll"].panel

\* whether a pixel frame of io was sent to a panel
Wrote(io) == \E i \in DOMAIN io : io[i].kind = "pixels" /\ io[i].sent

\* C22: when display_message has started a new animation, or when
\* display_message or clear has written to the board after it requested
\* the stop, every animation thread started before has terminated: the
\* only thread alive, if any, is the one the driver references
C22_OneAnimationAlive ==
    [][(/\ last'.op \in {"display_message", "clear"}
        /\ Wrote(last'.io) \/ scrolling_thread' # None)
       => DOMAIN threads' \subseteq {scrolling_thread'}]_vars

\* an animation whose stop was requested writes a frame to the board while
\* the animation started after it is alive
C22_Witness ==
    /\ last.op = "scroll_frame"
    /\ last.stopped
    /\ Wrote(last.io)
    /\ Cardinality(DOMAIN threads) = 2
    /\ scrolling_thread \in DOMAIN threads
    /\ scrolling_thread # last.args[1]

\* the pixel writes of io go to every panel once, in order
OnePass(io) ==
    /\ Len(io) = panels
    /\ \A i \in DOMAIN io : io[i].kind = "pixels" /\ io[i].panel = i - 1

\* C23: with the board on, display_message starts a scroll animation iff
\* the message renders to more columns than the board has; otherwise it
\* writes the board in one pass over the panels and references no
\* animation; in both cases every animation alive before has been asked
\* to stop
C23_ScrollIffWiderThanBoard ==
    [][(last'.op = "display_message" /\ last'.was.turned_on) =>
          /\ scrolling_thread' # None
                <=> RenderedLength(last'.args[1]) > get_board_size
          /\ scrolling_thread' # None =>
                /\ scrolling_thread' \in DOMAIN threads' \ last'.was.alive
                /\ threads'[scrolling_thread'].continu
                /\ last'.io = <<>>
          /\ scrolling_thread' = None => OnePass(last'.io)
          /\ \A t \in last'.was.alive \cap DOMAIN threads' :
                ~threads'[t].continu]_vars

\* a message exactly as wide as the board was displayed while an animation
\* was running: it is written in one pass, the animation asked to stop
C23_Witness ==
    /\ last.op = "display_message"
    /\ last.was.turned_on
    /\ last.args[1] = Text128
    /\ RenderedLength(Text128) = get_board_size
    /\ RenderedLength(Text129) = get_board_size + 1
    /\ last.was.scrolling_thread # None
    /\ scrolling_thread = None
    /\ Wrote(last.io)
    /\ \E t \in DOMAIN threads : ~threads[t].continu

\* C24: a display cycle that calls display_message while the driver is
\* switched off gets false, and the call does nothing: no frame and no
\* close or reopening of the bus, no animation started, no driver state
\* changed
C24_OffDisplayIsNoOp ==
    [][(last'.op = "display" /\ last'.rendered /\ ~turned_on) =>
          /\ ~last'.evolutive
          /\ last'.io = <<>>
          /\ UNCHANGED driver_vars]_vars

\* the driver being off, a cycle called display_message once the watchdog
\* delay had elapsed: the bus was closed and reopened, every panel was sent
\* its five commands, and the time of the last reset moved
C24_Witness ==
    /\ last.op = "display"
    /\ last.rendered
    /\ ~turned_on
    /\ ~last.evolutive
    /\ Len(last.io) = 2 + 5 * panels
    /\ last.io[1].kind = "spi_close"
    /\ last.io[2].kind = "spi_open"
    /\ \A i \in 3..Len(last.io) : last.io[i].kind = "command"
    /\ last_hw_reset = last.now
    /\ \A p \in Panels : ~panel_cleared[p]

\* the commands of the initialisation of one panel, in order
InitCommands ==
    <<HT1632_CMD_RCCLK, HT1632_CMD_SYSON, HT1632_CMD_LEDON,
      BitOr(HT1632_CMD_PWM, 15), HT1632_CMD_BLOFF>>

\* the bus closed and reopened, then the five commands to each panel
ExpectedInit ==
    <<[kind |-> "spi_close"], [kind |-> "spi_open"]>>
    \o [i \in 1..(5 * panels) |->
            [kind |-> "command", panel |-> (i - 1) \div 5,
             frame |-> CommandFrame(InitCommands[((i - 1) % 5) + 1])]]

\* the steps in which the plugin has the driver render: a cycle that
\* displays its head message or clears the board, and turn_off
RenderStep ==
    \/ last'.op = "display" /\ (last'.rendered \/ last'.head = None)
    \/ last'.op = "turn_off"

\* C25: every render call starts with the watchdog check: made more than
\* 60 seconds after the last initialisation, it closes and reopens the bus,
\* sends RCCLK, SYSON, LEDON, PWM|0x0F, BLOFF to each panel in that order
\* and records the time, all before any pixel frame; made earlier, it
\* sends no command
C25_RenderRunsWatchdog ==
    [][RenderStep =>
          IF clock' > last_hw_reset + RESET_HW_DELAY * Resolution
          THEN /\ Len(last'.io) >= Len(ExpectedInit)
               /\ SubSeq(last'.io, 1, Len(ExpectedInit)) = ExpectedInit
               /\ \A i \in (Len(ExpectedInit) + 1)..Len(last'.io) :
                     last'.io[i].kind = "pixels"
               /\ last_hw_reset' = clock'
          ELSE \A i \in DOMAIN last'.io : last'.io[i].kind = "pixels"]_vars

\* a cycle with nothing to display cleared the board more than 60 seconds
\* after the last initialisation: blank frames were sent and nothing else,
\* and the initialisation is still as old
C25_Witness ==
    /\ last.op = "display"
    /\ last.head = None
    /\ last.now > last_hw_reset + RESET_HW_DELAY * Resolution
    /\ Wrote(last.io)
    /\ \A i \in DOMAIN last.io : last.io[i].kind = "pixels"

\* C26: once cleanup has run (animation stopped, board cleared, GPIO lines
\* released, bus closed), no step touches the bus or the GPIO lines any
\* more, be it a display cycle or a step of a scroll animation
C26_NothingAfterCleanup ==
    [][~gpio => last'.io = <<>>]_vars

\* after cleanup, and before the periodic task was stopped, a display cycle
\* rendered its head message: the driver took the lock and drove the GPIO
\* lines that had been released
C26_Witness ==
    /\ ~gpio
    /\ tasks[display_task].running
    /\ last.op = "display"
    /\ last.rendered
    /\ last.io # <<>>
    /\ last.io[1] = [kind |-> "failed", at |-> "select", panel |-> 0]
    /\ last.error = "RuntimeError"
    /\ lock.held

\* C27: after a transfer has failed in a display cycle or in the scroll
\* animation, the later cycles and animation frames still complete their
\* transfers: no thread is left waiting for the bus lock for good
C27_NoThreadBlocks ==
    lock.waiting = {}

\* a transfer failed in an earlier step and the lock is still held; the
\* display cycle that came next never returned: the thread of the periodic
\* task waits for the lock
C27_Witness ==
    /\ lock.held
    /\ spi = "open"
    /\ last.op = "display"
    /\ last.error = "Blocked"
    /\ "task" \in lock.waiting

\* C28: the animation thread runs the watchdog check only when a pass is
\* exhausted, and then starts a new pass; when its loop ends on a stop
\* request the thread ends without the check and without touching the bus;
\* while a pass goes on it sends pixel frames and nothing else
C28_WatchdogOnExhaustionOnly ==
    [][/\ last'.op = "scroll_end" =>
             IF last'.stopped
             THEN /\ ~last'.alive
                  /\ last'.io = <<>>
                  /\ UNCHANGED <<last_hw_reset, spi, panel_cleared>>
             ELSE /\ last'.exhausted
                  /\ last'.alive
                  /\ threads'[last'.args[1]].pc = "frame"
       /\ last'.op = "scroll_loop" => last'.io = <<>>
       /\ last'.op = "scroll_frame" =>
             \A i \in DOMAIN last'.io : last'.io[i].kind = "pixels"]_vars

\* an animation asked to stop more than 60 seconds after the last
\* initialisation ended with the watchdog reset: it closed and reopened the
\* bus and sent the commands of the initialisation
C28_Witness ==
    /\ last.op = "scroll_end"
    /\ last.stopped
    /\ ~last.alive
    /\ last.io = ExpectedInit
    /\ last_hw_reset = clock
    /\ scrolling_thread = None

\* C29: once its stop is requested an animation thread writes at most one
\* more frame to the board, starts no new pass and, being scheduled,
\* terminates; a thread whose stop was not requested does not terminate:
\* at the end of a pass it starts the next one
C29_StopWithinOneFrame ==
    /\ [](\A t \in DOMAIN threads : threads[t].late <= 1)
    /\ [][/\ last'.op = "scroll_end" =>
                IF last'.stopped
                THEN ~last'.alive
                ELSE last'.alive /\ threads'[last'.args[1]].pc = "frame"
          /\ \A t \in DOMAIN threads :
                t \notin DOMAIN threads' => ~threads[t].continu]_vars
    /\ \A t \in 1..MaxAlive :
          (t \in DOMAIN threads /\ ~threads[t].continu) ~> (t \notin DOMAIN threads)

\* an animation that had passed its loop test when the stop was requested
\* has written its frame and is back at the test
C29_Witness ==
    \E t \in DOMAIN threads :
        /\ ~threads[t].continu
        /\ threads[t].late = 1
        /\ threads[t].pc = "loop"
        /\ last.op = "scroll_frame"
        /\ last.args[1] = t
        /\ Wrote(last.io)

\* C30: when board.display_message raises during a display cycle, the cycle
\* returns normally (nothing is propagated, the task and its thread go on),
\* the displayed_time and the dynamic mark of the selected message and the
\* current reference keep the values they had before the cycle, and the
\* cycle publishes no event
C30_RenderErrorIsSwallowed ==
    [][(/\ last'.op = "display"
        /\ last'.rendered
        /\ last'.error \notin {NoError, "Blocked"}) =>
            /\ last'.raised = NoError
            /\ "task" \notin lock'.waiting
            /\ tasks'[display_task] = tasks[display_task]
            /\ heap'[last'.head].displayed_time = heap[last'.head].displayed_time
            /\ heap'[last'.head].dynamic = heap[last'.head].dynamic
            /\ current_message' = current_message
            /\ last'.events = <<>>]_vars

\* a cycle whose render failed on the bus: the selected message was not the
\* current one and is still not, and it has never been marked displayed
C30_Witness ==
    /\ last.op = "display"
    /\ last.rendered
    /\ last.error = "IOError"
    /\ last.head # None
    /\ current_message # last.head
    /\ heap[last.head].displayed_time = 0
    /\ last.events = <<>>
    /\ tasks[display_task].running

\* C33: the current reference is empty or refers to a message of the
\* in-memory collection, so that get_current_message() never reports a
\* message that was deleted or that expired and was removed
C33_CurrentIsStored ==
    /\ current_message = None \/ current_message \in Range(messages)
    /\ Status.message # <<>> =>
          \E r \in Range(messages) : to_dict(heap[r]) = Status.message[1]

\* delete_message has removed the message the board shows: it is in neither
\* the collection nor the configuration, and the status still reports it
C33_Witness ==
    /\ last.op = "delete_message"
    /\ last.ret = "True"
    /\ current_message # None
    /\ current_message \notin Range(messages)
    /\ heap[current_message].uuid = last.args[1]
    /\ ~ConfigHas(config_messages, last.args[1])
    /\ Status.message = <<to_dict(heap[current_message])>>

\* the number of entries of a configuration that carry uuid
Entries(config, uuid) ==
    Cardinality({i \in DOMAIN config : config[i].uuid = uuid})

\* C37: a display cycle renders a message only if start <= now <= end at the
\* time of the cycle; a message with start > end is never rendered; a
\* message whose window has not started (now < start, now <= end) is not
\* rendered and stays in memory and in the configuration
C37_RenderOnlyInsideWindow ==
    [][last'.op = "display" =>
          /\ last'.rendered =>
                /\ last'.head \in Range(messages)
                /\ heap[last'.head].start <= last'.now
                /\ last'.now <= heap[last'.head].end
          /\ \A r \in Range(messages) :
                /\ heap[r].start > heap[r].end =>
                      ~(last'.rendered /\ last'.head = r)
                /\ (last'.now < heap[r].start /\ last'.now <= heap[r].end) =>
                      /\ ~(last'.rendered /\ last'.head = r)
                      /\ r \in Range(messages')
                      /\ heap'[r] = heap[r]
                      /\ Entries(config_messages', heap[r].uuid)
                             = Entries(config_messages, heap[r].uuid)]_vars

\* a cycle rendered one message while another one, whose window starts
\* later, stayed stored and was never displayed
C37_Witness ==
    /\ last.op = "display"
    /\ last.rendered
    /\ \E r \in Range(messages) :
          /\ r # last.head
          /\ last.now < heap[r].start
          /\ last.now <= heap[r].end
          /\ heap[r].displayed_time = 0
          /\ ConfigHas(config_messages, heap[r].uuid)

\* C38: a display cycle that changes the status get_current_message()
\* returns publishes, in that cycle, an event that carries the new status
C38_CycleChangeIsPublished ==
    [][(last'.op = "display" /\ Status' # Status) =>
          /\ last'.events # <<>>
          /\ last'.events[Len(last'.events)] = Status']_vars

\* the cycle in which the last stored message expired: it removed the
\* message, sent blank frames to the board that was showing it and cleared
\* the current reference, and it published nothing
C38_Witness ==
    /\ last.op = "display"
    /\ last.removed > 0
    /\ messages = <<>>
    /\ last.head = None
    /\ selection = "cleared"
    /\ turned_on
    /\ \E i \in DOMAIN last.io : last.io[i].kind = "pixels" /\ last.io[i].sent
    /\ Status.nomessage
    /\ last.events = <<>>

Byte == 0..255

\* C36: every byte of every frame handed to the bus lies in 0..255, in the
\* two bytes of each command frame of the initialisation and in the 34 bytes
\* of the pixel frame built from 32 columns in 0..255
C36_FrameBytesAreBytes ==
    /\ \A i \in DOMAIN last.io :
          last.io[i].kind = "command" =>
              \A k \in DOMAIN last.io[i].frame : last.io[i].frame[k] \in Byte
    /\ last.op = "write_pixels_to_panel" =>
          /\ Len(PixelFrame(last.args[2])) = PanelColumns + 2
          /\ \A k \in 1..(PanelColumns + 2) : PixelFrame(last.args[2])[k] \in Byte

\* the initialisation has handed to the bus the frame of RCCLK, whose second
\* byte is 0x18 << 5 = 768
C36_Witness ==
    /\ last.op = "configure"
    /\ \E i \in DOMAIN last.io :
          /\ last.io[i].kind = "command"
          /\ last.io[i].frame = <<BitOr(128, 3), 768>>

\* C31: no driver operation raises InvalidBuffer: every buffer that
\* display_message, scroll_message_once, random or a frame of a pass hands
\* to write_pixels is at least as long as the board, and so is what is left
\* of it from the index on
C31_NoInvalidBuffer ==
    /\ last.raised # "InvalidBuffer"
    /\ pass.pc = "loop" =>
          /\ Len(pass.buf) >= get_board_size
          /\ Len(pass.buf) - pass.index >= get_board_size
    /\ last.op = "random" => Len(last.args[1]) >= get_board_size

\* a frame of a pass in direction 0 has been written from a buffer that
\* holds exactly the board size behind its index
C31_Witness ==
    /\ last.op = "pass_frame"
    /\ last.raised = NoError
    /\ pass.frames > 0
    /\ pass.direction = 0
    /\ pass.index = pass.message_length
    /\ Len(pass.buf) - pass.index = get_board_size
    /\ Len(last.io) = panels

\* the message column that enters the board with frame number k + 1 of a
\* pass, a zero column once the whole message has entered: the columns
\* enter last first in direction 0 and first first otherwise
Entering(p, k) ==
    IF k > p.message_length THEN 0
    ELSE IF p.direction = 0 THEN p.columns[p.message_length - k + 1]
    ELSE p.columns[k]

\* frame next is frame prev moved by one column, to the right in direction
\* 0 and to the left otherwise, with column entering at the edge left free
MovedByOne(prev, next, direction, entering) ==
    /\ Len(next) = Len(prev)
    /\ \A i \in 1..Len(next) :
          next[i] = IF direction = 0
                    THEN (IF i = 1 THEN entering ELSE prev[i - 1])
                    ELSE (IF i = Len(next) THEN entering ELSE prev[i + 1])

\* the pass of a message wider than the board, but for what enters
PassFromBlankToBlank ==
    /\ (last'.op = "pass_frame" /\ pass.message_length > get_board_size) =>
          /\ last'.raised = NoError
          /\ Len(pass'.window) = get_board_size
          /\ pass.frames = 0 => AllZero(pass'.window)
    /\ (last'.op = "pass_end" /\ pass.message_length > get_board_size) =>
          /\ pass.frames = get_board_size + pass.message_length + 1
          /\ AllZero(pass.window)

\* C32, with the message entering: in both directions one pass over a
\* message wider than the board writes board size + message length + 1
\* frames; the first and the last are blank; each frame is the previous one
\* moved by one column, the column that enters being the next column of the
\* message and, once the whole message has entered, a zero column
C32_PassMovesMessageAcross ==
    [][/\ PassFromBlankToBlank
       /\ (last'.op = "pass_frame" /\ pass.message_length > get_board_size
              /\ pass.frames > 0) =>
             MovedByOne(pass.window, pass'.window, pass.direction,
                        Entering(pass, pass.frames))]_vars

\* C32: ... each frame is the previous one shifted by one column with a
\* zero column entering
C32_PassShiftsInZeros ==
    [][/\ PassFromBlankToBlank
       /\ (last'.op = "pass_frame" /\ pass.message_length > get_board_size
              /\ pass.frames > 0) =>
             MovedByOne(pass.window, pass'.window, pass.direction, 0)]_vars

\* a pass of the animation, right to left, over a message of 129 columns
\* has ended after 258 frames, the last of them blank
C32_Witness ==
    /\ last.op = "pass_end"
    /\ pass.pc = "done"
    /\ pass.op = "display_message"
    /\ pass.direction = 1
    /\ pass.message_length = get_board_size + 1
    /\ pass.frames = 2 * get_board_size + 2
    /\ AllZero(pass.window)
    /\ \E i \in DOMAIN pass.columns : pass.columns[i] # 0

\* no thread is writing to panel p, from the test of the flag to the release
NoWriteInProgress(p) ==
    \A c \in Callers : bus_pc[c].pc = "idle" \/ bus_pc[c].panel # p

\* C34: whenever the cleared flag of a panel is set and no write to that
\* panel is in progress, the last frame transferred to the panel was blank
C34_ClearedMeansBlank ==
    \A p \in Panels :
        (panel_cleared[p] /\ NoWriteInProgress(p)) => wire[p] = "blank"

\* no thread is inside a write and the lock is free; panel 0 is flagged as
\* cleared and the last frame it received had lit pixels
C34_Witness ==
    /\ bus_pc = Idle
    /\ ~lock.held
    /\ panel_cleared[0]
    /\ wire[0] = "lit"

\* thread c has selected a panel and not yet deselected it
PanelSelected(c) == bus_pc[c].pc \in {"write", "unselect"}

\* the step closes the bus handle or replaces it, in thread c
ClosesOrReplaces(c) ==
    \/ reset_pc[c].pc = "close" /\ reset_pc'[c].pc = "open"
    \/ reset_pc[c].pc = "open" /\ reset_pc'[c].pc = "init"

\* C35: while a thread is between the select and the deselect of a panel,
\* no other thread closes or replaces the bus handle, and two threads are
\* never inside the hardware re-initialisation at the same time
C35_ResetNeverOverlaps ==
    /\ [](Cardinality({c \in Callers : reset_pc[c].pc # "idle"}) <= 1)
    /\ [][\A c \in Callers : PanelSelected(c) =>
              \A other \in Callers \ {c} : ~ClosesOrReplaces(other)]_vars

\* the thread of the caller has closed the bus and not yet reopened it,
\* while the animation thread, itself inside the re-initialisation, has a
\* panel selected for one of its commands
C35_Witness ==
    /\ reset_pc["task"].pc = "open"
    /\ spi = "closed"
    /\ reset_pc["scroll"].pc = "init"
    /\ bus_pc["scroll"].pc = "write"
    /\ bus_pc["scroll"].kind = "command"
    /\ lock.held

====
